---- MODULE Spec2Model ----
(***************************************************************************)
(* Model of the analysis pipeline of lab-manual-analyser:                  *)
(* LabManualAnalyzerStrict.analyze_manual_organized and the stages it      *)
(* drives (prepare_pdf, split_pdf_15pages, extract_text_safe,              *)
(* merge_texts_medical, create_analysis_chunks,                            *)
(* analyze_with_gemini_advanced, synthesize_final_medical, the LaTeX       *)
(* renderer, cleanup_temp_files / emergency_cleanup).                      *)
(*                                                                         *)
(* In a run (Spec), texts are represented by their lengths (Python len())  *)
(* and their runs of characters, files by their presence on disk,          *)
(* capability responses by the class of response the code distinguishes    *)
(* (exception, empty, parsable, ...).                                      *)
(*                                                                         *)
(* The functions of the pipeline are also called on their own, on inputs   *)
(* the run does not reach: merge_texts_medical (SpecMerge),                *)
(* create_analysis_chunks (SpecChunk), analyze_with_gemini_advanced        *)
(* (SpecAnalyze), fix_common_json_errors on sequences of characters        *)
(* (SpecRepair), validate_detailed_analysis_result on the types of the     *)
(* fields (SpecNormalize), synthesize_final_medical on records with their  *)
(* items (SpecSynthesis), calculate_comprehensive_stats on synthesis       *)
(* records of any JSON shape (SpecStats).                                  *)
(*                                                                         *)
(* The web service (app.py) is modelled by the generator of one streamed   *)
(* request, stream_analysis_with_content (SpecStream), and by              *)
(* ManualMinerAPI.initialize called from concurrent requests (SpecInit).   *)
(***************************************************************************)
EXTENDS Integers, Sequences, FiniteSets, TLC

----------------------------------------------------------------------------
\* Bounds of the model

\* largest page count of a source document
MaxPages == 31
\* length of the file name of the source document
SourceNameLen == 12
\* longest list of extraction results handed to merge_texts_medical alone
MaxResults == 3
\* longest text, in runs, handed to create_analysis_chunks alone
MaxRuns == 4
\* most members of a JSON object handed to fix_common_json_errors alone
MaxMembers == 2
\* most sections of a payload that are not as the prompt asks for them
MaxOddSections == 2
\* most records handed to synthesize_final_medical alone
MaxRecords == 2
\* most procedures of one record
MaxItems == 3
\* most procedures of a synthesis record handed to
\* calculate_comprehensive_stats alone
MaxEntries == 2
\* most requests of the web service in flight together
MaxRequests == 2

----------------------------------------------------------------------------
\* Program constants

max_pages_per_request == 15
max_retries == 2
BackoffUnit == 3
MinExtractChars == 100
MinMergeChars == 50
MinFullTextChars == 500
MinChunkInputChars == 100
max_chars_per_chunk == 350000
AnalysisAttempts == 2
ContextWindow == 300
UnidentifiedNomLen == 24
RendererParams == 3

----------------------------------------------------------------------------
\* Arithmetic helpers

Min(a, b) == IF a < b THEN a ELSE b

Max(a, b) == IF a > b THEN a ELSE b

\* math.ceil(a / b) for a >= 0, b > 0
Ceil(a, b) == IF a % b = 0 THEN a \div b ELSE (a \div b) + 1

\* len(str(n)) for n >= 0
RECURSIVE Digits(_)
Digits(n) == IF n < 10 THEN 1 ELSE 1 + Digits(n \div 10)

\* len(f"{n:,}"): the digits plus one comma per complete group of three
CommaLen(n) == Digits(n) + ((Digits(n) - 1) \div 3)

\* len(f"{n:02d}")
Pad2Len(n) == Max(2, Digits(n))

----------------------------------------------------------------------------
\* State

VARIABLES
    pc,              \* position of analyze_manual_organized
    total_pages,     \* len(pdf_reader.pages) of the source document
    encrypted,       \* pdf_reader.is_encrypted of the source document
    prepared_pdf,    \* local prepared_pdf: "None", "original" or "decrypted"
    chunks,          \* local `chunks` of split_pdf_15pages while it runs
    pdf_chunks,      \* local pdf_chunks of analyze_manual_organized
    disk_chunks,     \* ordinals of the chunk files present in temp/<stem>_chunks
    disk_decrypted,  \* temp/decrypted_<name> is present
    disk_original,   \* the source document pdf_path is present
    disk_output,     \* syntheses/<stem>_SYNTHESE_MEDICALE_COMPLETE.pdf is present
    ext_i,           \* 1-based index of the sub-document being extracted
    attempt,         \* loop variable of extract_text_safe
    waits,           \* time.sleep durations of the current extract_text_safe call
    chunk_texts,     \* local chunk_texts: the ExtractionResults
    full_text,       \* merged text, as its sections
    analysis_chunks, \* local analysis_chunks
    an_i,            \* 1-based index of the analysis unit being analysed
    an_attempt,      \* loop variable of analyze_with_gemini_advanced
    chunk_analyses,  \* local chunk_analyses
    context,         \* len(context), local context of analyze_manual_organized
    prompt_context,  \* length of the context text in the last analysis prompt
    synthesis,       \* local synthesis
    calls,           \* number of invocations of each capability / collaborator
    failed_stage,    \* stage whose exception reached the except clause
    result,          \* the dictionary analyze_manual_organized returned
    m_in,            \* argument of a stand-alone merge_texts_medical call
    m_out,           \* its outcome
    f_in,            \* argument of a stand-alone call of another function
    f_out            \* its outcome

vars == << pc, total_pages, encrypted, prepared_pdf, chunks, pdf_chunks,
           disk_chunks, disk_decrypted, disk_original, disk_output,
           ext_i, attempt, waits,
           chunk_texts, full_text, analysis_chunks, an_i, an_attempt,
           chunk_analyses, context, prompt_context, synthesis,
           calls, failed_stage, result, m_in, m_out, f_in, f_out >>

diskVars == << disk_chunks, disk_decrypted, disk_original, disk_output >>

extractVars == << ext_i, attempt, waits, chunk_texts >>

analysisVars == << an_i, an_attempt, chunk_analyses, context, prompt_context >>

standaloneVars == << m_in, m_out, f_in, f_out >>

----------------------------------------------------------------------------
\* Result dictionaries of analyze_manual_organized

NoResult == [returned |-> FALSE, success |-> FALSE, keys |-> {}]

SuccessResult ==
    [returned |-> TRUE, success |-> TRUE,
     keys |-> {"success", "pdf_medical", "statistiques", "synthesis", "validation"}]

\* variant: the except clause also hands back what it had of the synthesis
FailureResultWithRecord ==
    [returned |-> TRUE, success |-> FALSE,
     keys |-> {"success", "error", "pdf_path", "validation", "synthesis"}]

FailureResult ==
    [returned |-> TRUE, success |-> FALSE,
     keys |-> {"success", "error", "pdf_path", "validation"}]

NoSynthesis == [origin |-> "None", keys |-> {}]

----------------------------------------------------------------------------
\* cleanup_temp_files and emergency_cleanup

\* a file on the disk: a chunk file of the splitter (ord: its ordinal), the
\* decrypted copy or the source document
File(file, ord) == [file |-> file, ord |-> ord]

\* the file an element c of pdf_chunks is the path of: a chunk file, or the
\* prepared PDF pp ("original" or "decrypted") that the splitter returns for
\* a small document
FileOf(c, pp) == IF c.kind = "chunk" THEN File("chunk", c.ord) ELSE File(pp, 0)

\* variant: the chunk files are unlinked whatever their number
UnlinkedAnyCount(cl, pp) ==
    {FileOf(cl[k], pp) : k \in 1..Len(cl)}
    \cup (IF pp = "decrypted" THEN {File("decrypted", 0)} ELSE {})

\* the paths cleanup_temp_files(pdf_chunks, prepared_pdf, original_pdf) calls
\* unlink on if they exist: every element of pdf_chunks when there is more
\* than one, and prepared_pdf when it is not original_pdf
Unlinked(cl, pp) ==
    (IF Len(cl) > 1 THEN {FileOf(cl[k], pp) : k \in 1..Len(cl)} ELSE {})
    \cup (IF pp = "decrypted" THEN {File("decrypted", 0)} ELSE {})

\* Disk after cleanup_temp_files(pdf_chunks, prepared_pdf, original_pdf)
\* called with the chunk list cl and prepared copy pp on the disk (dc, dd).
\* original_unlinked: the source document is among the unlinked paths.
\* raised: prepared_pdf is None, so prepared_pdf.exists() raises.
cleanup_temp_files(cl, pp, dc, dd) ==
    LET unlinked == Unlinked(cl, pp)
    IN  [chunks    |-> dc \ {f.ord : f \in {g \in unlinked : g.file = "chunk"}},
         decrypted |-> IF File("decrypted", 0) \in unlinked THEN FALSE ELSE dd,
         original_unlinked |-> File("original", 0) \in unlinked,
         raised    |-> (pp = "None")]

\* emergency_cleanup swallows whatever cleanup_temp_files raises
emergency_cleanup(cl, pp, dc, dd) ==
    LET c == cleanup_temp_files(cl, pp, dc, dd)
    IN  [chunks    |-> c.chunks,
         decrypted |-> c.decrypted,
         original_unlinked |-> c.original_unlinked]

\* variant: a failed extraction is logged inside the loop and the run goes
\* on to the merge with the texts it has
AbortSkippingExtraction(stage, cl, pp, dc, dd) ==
    IF stage = "extract"
    THEN /\ failed_stage' = stage
         /\ pc' = "merge"
         /\ UNCHANGED << disk_chunks, disk_decrypted, disk_original, result >>
    ELSE LET e == emergency_cleanup(cl, pp, dc, dd)
         IN  /\ disk_chunks' = e.chunks
             /\ disk_decrypted' = e.decrypted
             /\ disk_original' = (disk_original /\ ~e.original_unlinked)
             /\ failed_stage' = stage
             /\ result' = FailureResult
             /\ pc' = "done"

\* The except clause of analyze_manual_organized, entered from `stage` with
\* the locals cl (pdf_chunks) and pp (prepared_pdf) and the disk (dc, dd).
Abort(stage, cl, pp, dc, dd) ==
    LET e == emergency_cleanup(cl, pp, dc, dd)
    IN  /\ disk_chunks' = e.chunks
        /\ disk_decrypted' = e.decrypted
        /\ disk_original' = (disk_original /\ ~e.original_unlinked)
        /\ failed_stage' = stage
        /\ result' = FailureResult
        /\ pc' = "done"

----------------------------------------------------------------------------
\* prepare_pdf

Prepare ==
    /\ pc = "prepare"
    /\ \E ok \in BOOLEAN :
         IF ~ok
         THEN \* missing or empty file, or decrypt_pdf returned False
              /\ Abort("prepare", pdf_chunks, "None", disk_chunks, disk_decrypted)
              /\ UNCHANGED prepared_pdf
         ELSE /\ prepared_pdf' = IF encrypted THEN "decrypted" ELSE "original"
              /\ disk_decrypted' = (encrypted \/ disk_decrypted)
              /\ UNCHANGED disk_original
              /\ pc' = "split"
              /\ UNCHANGED << disk_chunks, failed_stage, result >>
    /\ UNCHANGED << total_pages, encrypted, chunks, pdf_chunks, disk_output,
                    extractVars, full_text, analysis_chunks, analysisVars,
                    synthesis, calls, standaloneVars >>

----------------------------------------------------------------------------
\* split_pdf_15pages

\* variant: end_page is not capped by total_pages
SplitChunkUncapped(i, P) ==
    [kind  |-> "chunk",
     ord   |-> i + 1,
     first |-> i * max_pages_per_request + 1,
     last  |-> i * max_pages_per_request + max_pages_per_request]

\* the sub-document written in iteration i (0-based) of the split loop
SplitChunk(i, P) ==
    [kind  |-> "chunk",
     ord   |-> i + 1,
     first |-> i * max_pages_per_request + 1,
     last  |-> Min(i * max_pages_per_request + max_pages_per_request, P)]

\* the single sub-document returned for a small document: the prepared PDF
WholeDocument(P) == [kind |-> "prepared", ord |-> 1, first |-> 1, last |-> P]

num_chunks(P) == Ceil(P, max_pages_per_request)

\* total_pages = 0 or total_pages <= max_pages_per_request
SplitDirect ==
    /\ pc = "split"
    /\ total_pages <= max_pages_per_request
    /\ IF total_pages = 0
       THEN /\ Abort("split", pdf_chunks, prepared_pdf, disk_chunks, disk_decrypted)
            /\ UNCHANGED pdf_chunks
       ELSE /\ pdf_chunks' = << WholeDocument(total_pages) >>
            /\ pc' = "extract"
            /\ UNCHANGED << disk_chunks, disk_decrypted, disk_original,
                            failed_stage, result >>
    /\ UNCHANGED << total_pages, encrypted, prepared_pdf, chunks, disk_output,
                    extractVars, full_text, analysis_chunks, analysisVars,
                    synthesis, calls, standaloneVars >>

\* one iteration of the split loop; written: the chunk file is present and
\* not empty after pdf_writer.write
SplitWrite ==
    /\ pc = "split"
    /\ total_pages > max_pages_per_request
    /\ Len(chunks) < num_chunks(total_pages)
    /\ \E written \in BOOLEAN :
         LET c == SplitChunk(Len(chunks), total_pages)
             onDisk == disk_chunks \cup {c.ord}
         IN  IF ~written
             THEN \* RuntimeError: the caller's pdf_chunks is still []
                  /\ Abort("split", pdf_chunks, prepared_pdf, onDisk, disk_decrypted)
                  /\ UNCHANGED << chunks, pdf_chunks >>
             ELSE /\ disk_chunks' = onDisk
                  /\ chunks' = Append(chunks, c)
                  /\ IF Len(chunks) + 1 = num_chunks(total_pages)
                     THEN pdf_chunks' = Append(chunks, c) /\ pc' = "extract"
                     ELSE UNCHANGED << pdf_chunks, pc >>
                  /\ UNCHANGED << disk_decrypted, disk_original, failed_stage, result >>
    /\ UNCHANGED << total_pages, encrypted, prepared_pdf, disk_output,
                    extractVars, full_text, analysis_chunks, analysisVars,
                    synthesis, calls, standaloneVars >>

----------------------------------------------------------------------------
\* extract_text_safe

\* text lengths the OCR capability may answer with (0: no text)
OcrLens == {0, 99, 100, 300, 400000}

\* what one pass through the try block of extract_text_safe meets:
\* a file over the size limit (no request is sent), a failing request,
\* or a response whose document.text has len characters
OcrOutcomes ==
    {[kind |-> "oversize", len |-> 0], [kind |-> "exception", len |-> 0]}
        \cup {[kind |-> "text", len |-> n] : n \in OcrLens}

\* variant: the minimum length of the extracted text is not checked
ExtractionAcceptedAnyText(o) ==
    /\ o.kind = "text"
    /\ o.len # 0

\* the try block reaches its return statement
ExtractionAccepted(o) ==
    /\ o.kind = "text"
    /\ o.len # 0
    /\ ~(o.len < MinExtractChars)

\* len(Path(chunk_file).name) of a sub-document
NameLen(c, pp) ==
    IF c.kind = "chunk"
    THEN 6 + Pad2Len(c.ord) + 2 + Digits(c.first) + 1 + Digits(c.last) + 4
    ELSE IF pp = "decrypted" THEN 10 + SourceNameLen ELSE SourceNameLen

\* the dictionary extract_text_safe returns
ExtractionResult(o, c, pp) ==
    [text_len   |-> o.len,
     pages      |-> c.last - c.first + 1,
     name_len   |-> NameLen(c, pp),
     char_count |-> o.len]

\* time.sleep argument after the failed attempt a (0-based)
wait_time(a) == (a + 1) * BackoffUnit

\* attempt a was not the last one of range(max_retries)
MayRetry(a) == a < max_retries - 1

\* one pass of the retry loop of extract_text_safe, and what the caller does
\* with its return value or its exception
ExtractAttempt ==
    /\ pc = "extract"
    /\ \E o \in OcrOutcomes :
         /\ calls' = [calls EXCEPT !.ocr = @ + (IF o.kind = "oversize" THEN 0 ELSE 1)]
         /\ IF ExtractionAccepted(o)
            THEN /\ chunk_texts' = Append(chunk_texts,
                                          ExtractionResult(o, pdf_chunks[ext_i], prepared_pdf))
                 /\ pc' = IF ext_i < Len(pdf_chunks) THEN "extract_delay" ELSE "merge"
                 /\ UNCHANGED << attempt, waits, ext_i, disk_chunks,
                                 disk_decrypted, disk_original,
                                 failed_stage, result >>
            ELSE IF MayRetry(attempt)
            THEN /\ waits' = Append(waits, wait_time(attempt))
                 /\ attempt' = attempt + 1
                 /\ UNCHANGED << pc, chunk_texts, ext_i, disk_chunks,
                                 disk_decrypted, disk_original,
                                 failed_stage, result >>
            ELSE /\ Abort("extract", pdf_chunks, prepared_pdf, disk_chunks, disk_decrypted)
                 /\ UNCHANGED << attempt, waits, ext_i, chunk_texts >>
    /\ UNCHANGED << total_pages, encrypted, prepared_pdf, chunks, pdf_chunks,
                    disk_output, full_text, analysis_chunks, analysisVars,
                    synthesis, standaloneVars >>

\* variant: no pause between two requests
time_sleep_skipped(c) == c

\* time.sleep(delay), delay being config["analysis"]["delay_between_requests"]:
\* one more pause has elapsed
time_sleep(c) == [c EXCEPT !.delays = @ + 1]

\* time.sleep(delay) between two extractions, then the next loop iteration
ExtractDelay ==
    /\ pc = "extract_delay"
    /\ pc' = "extract"
    /\ ext_i' = ext_i + 1
    /\ attempt' = 0
    /\ waits' = <<>>
    /\ calls' = time_sleep(calls)
    /\ UNCHANGED << total_pages, encrypted, prepared_pdf, chunks, pdf_chunks,
                    diskVars, chunk_texts, full_text, analysis_chunks,
                    analysisVars, synthesis, failed_stage, result,
                    standaloneVars >>

----------------------------------------------------------------------------
\* merge_texts_medical

\* len(section_header) of section i (1-based) for the result r
HeaderLen(i, r) ==
    213 + Digits(i) + Digits(r.pages) + CommaLen(r.text_len) + r.name_len

\* variant: the header gives the count the extraction stored in the result
SectionWithStoredCount(i, r) ==
    [index      |-> i,
     char_count |-> r.char_count,
     header_len |-> HeaderLen(i, r),
     text_len   |-> r.text_len]

\* what `full_text += section_header + chunk_text` appends for the result r
\* at the 1-based index i: the header carries i and char_count =
\* len(chunk_text)
Section(i, r) ==
    [index      |-> i,
     char_count |-> r.text_len,
     header_len |-> HeaderLen(i, r),
     text_len   |-> r.text_len]

\* chunk_result.get("text") and len(chunk_result["text"]) > 50
MergeAccepts(r) == r.text_len # 0 /\ r.text_len > MinMergeChars

\* the sections merge_texts_medical has appended when it returns or raises:
\* it stops at the first result it rejects
RECURSIVE MergePrefix(_, _)
MergePrefix(rs, i) ==
    IF i > Len(rs) \/ ~MergeAccepts(rs[i])
    THEN <<>>
    ELSE << Section(i, rs[i]) >> \o MergePrefix(rs, i + 1)

\* outcome of merge_texts_medical(rs): raised with the 1-based index of the
\* offending section (0: no section at all), or the merged sections
merge_texts_medical(rs) ==
    LET done == MergePrefix(rs, 1)
    IN  IF Len(done) < Len(rs)
        THEN [raised |-> TRUE, cause |-> Len(done) + 1, sections |-> <<>>]
        ELSE IF Len(done) = 0
        THEN [raised |-> TRUE, cause |-> 0, sections |-> <<>>]
        ELSE [raised |-> FALSE, cause |-> 0, sections |-> done]

\* len(full_text)
RECURSIVE FullLen(_)
FullLen(secs) ==
    IF secs = <<>> THEN 0
    ELSE Head(secs).header_len + Head(secs).text_len + FullLen(Tail(secs))

\* len(full_text.strip()): the first header starts with two newlines
StrippedLen(secs) == IF secs = <<>> THEN 0 ELSE FullLen(secs) - 2

\* step 4 of analyze_manual_organized
Merge ==
    /\ pc = "merge"
    /\ LET m == merge_texts_medical(chunk_texts)
       IN  IF m.raised \/ StrippedLen(m.sections) < MinFullTextChars
           THEN /\ Abort("merge", pdf_chunks, prepared_pdf, disk_chunks, disk_decrypted)
                /\ UNCHANGED full_text
           ELSE /\ full_text' = m.sections
                /\ pc' = "chunk"
                /\ UNCHANGED << disk_chunks, disk_decrypted, disk_original,
                            failed_stage, result >>
    /\ UNCHANGED << total_pages, encrypted, prepared_pdf, chunks, pdf_chunks,
                    disk_output, extractVars, analysis_chunks, analysisVars,
                    synthesis, calls, standaloneVars >>

----------------------------------------------------------------------------
\* create_analysis_chunks

\* A text is a sequence of runs [k, n]: n characters of kind k.
\*   "x"  characters that are not whitespace and hold no section marker
\*   "w"  whitespace characters
\*   "H"  one section header as merge_texts_medical writes it: two
\*        newlines, 80 '=', the SECTION MEDICALE line, the Pages, Caracteres
\*        and Source lines, 80 '=', two newlines
\*   "S"  one bare header: 80 '=', the SECTION MEDICALE line, 80 '=' and two
\*        newlines, with no line between the SECTION line and the second
\*        line of '='
Run(k, n) == [k |-> k, n |-> n]

\* len(text)
RECURSIVE TextLen(_)
TextLen(t) == IF t = <<>> THEN 0 ELSE Head(t).n + TextLen(Tail(t))

\* the characters of one run, by kind
Flat(r) ==
    IF r.k = "H" THEN << Run("w", 2), Run("x", r.n - 4), Run("w", 2) >>
    ELSE IF r.k = "S" THEN << Run("x", r.n - 2), Run("w", 2) >>
    ELSE << r >>

RECURSIVE Flatten(_)
Flatten(t) == IF t = <<>> THEN <<>> ELSE Flat(Head(t)) \o Flatten(Tail(t))

\* canonical form of a flattened text: no empty run, no two adjacent runs
\* of one kind
RECURSIVE Norm(_)
Norm(t) ==
    IF t = <<>> THEN <<>>
    ELSE IF Head(t).n = 0 THEN Norm(Tail(t))
    ELSE LET rest == Norm(Tail(t))
         IN  IF rest # <<>> /\ Head(rest).k = Head(t).k
             THEN << Run(Head(t).k, Head(t).n + Head(rest).n) >> \o Tail(rest)
             ELSE << Head(t) >> \o rest

\* the characters of a text: two texts are the same string only if their
\* Chars are equal
Chars(t) == Norm(Flatten(t))

\* text[:n]; a header cut by the slice is left as plain characters
RECURSIVE Take(_, _)
Take(t, n) ==
    IF n <= 0 \/ t = <<>> THEN <<>>
    ELSE IF Head(t).n <= n THEN << Head(t) >> \o Take(Tail(t), n - Head(t).n)
    ELSE IF Head(t).k \in {"x", "w"} THEN << Run(Head(t).k, n) >>
    ELSE Take(Flat(Head(t)), n)

\* text[n:]
RECURSIVE Drop(_, _)
Drop(t, n) ==
    IF n <= 0 \/ t = <<>> THEN t
    ELSE IF Head(t).n <= n THEN Drop(Tail(t), n - Head(t).n)
    ELSE IF Head(t).k \in {"x", "w"}
    THEN << Run(Head(t).k, Head(t).n - n) >> \o Tail(t)
    ELSE Drop(Flat(Head(t)) \o Tail(t), n)

\* not text.strip()
IsBlank(t) == \A i \in DOMAIN t : t[i].k = "w" \/ t[i].n = 0

\* len(text.strip())
StripLen(t) ==
    LET c == Chars(t)
    IN  TextLen(c)
        - (IF c # <<>> /\ c[1].k = "w" THEN c[1].n ELSE 0)
        - (IF Len(c) > 1 /\ c[Len(c)].k = "w" THEN c[Len(c)].n ELSE 0)

\* the merged text full_text of the sections merge_texts_medical appended;
\* the text of a sub-document is taken to hold no whitespace and no marker
RECURSIVE TextOf(_)
TextOf(secs) ==
    IF secs = <<>> THEN <<>>
    ELSE << Run("H", Head(secs).header_len), Run("x", Head(secs).text_len) >>
         \o TextOf(Tail(secs))

\* len(re.findall(r'={80}\nSECTION MEDICALE \d+', text)): both kinds of
\* header hold the marker
section_markers(t) == Cardinality({i \in DOMAIN t : t[i].k \in {"H", "S"}})

\* re.split(r'={80}\nSECTION MEDICALE \d+[^\n]*\n={80}\n\n', text): the
\* pattern wants the second line of '=' right after the SECTION line, so it
\* matches a bare header and never the header merge_texts_medical writes;
\* the matched headers are not part of any piece.  cur is the piece being
\* collected.
RECURSIVE re_split(_, _)
re_split(t, cur) ==
    IF t = <<>> THEN << cur >>
    ELSE IF Head(t).k = "S" THEN << cur >> \o re_split(Tail(t), <<>>)
    ELSE re_split(Tail(t), Append(cur, Head(t)))

\* the descriptions create_analysis_chunks writes, and len(description)
Description(form, a, b) == [form |-> form, a |-> a, b |-> b]

DescriptionLen(d) ==
    CASE d.form = "Document médical complet" -> 24
      [] d.form = "Sections médicales a-b"   -> 19 + Digits(d.a) + 1 + Digits(d.b)
      [] d.form = "Section médicale a"       -> 17 + Digits(d.a)
      [] d.form = "Sections finales a-b"     -> 17 + Digits(d.a) + 1 + Digits(d.b)
      [] d.form = "Section finale a"         -> 15 + Digits(d.a)
      [] d.form = "Partie médicale a"        -> 16 + Digits(d.a)

\* one element of the list create_analysis_chunks returns
AnalysisUnit(text, id, description) ==
    [text |-> text, chunk_id |-> id, description |-> description,
     char_count |-> TextLen(text)]

\* the loop `for i, section in enumerate(sections)` from the 1-based
\* index i on, and the final chunk after it
RECURSIVE PackSections(_, _, _, _, _)
PackSections(sections, i, current_chunk, chunk_sections, out) ==
    IF i > Len(sections)
    THEN IF ~IsBlank(current_chunk)
         THEN Append(out, AnalysisUnit(current_chunk, Len(out),
                  IF Len(chunk_sections) > 1
                  THEN Description("Sections finales a-b", chunk_sections[1],
                                   chunk_sections[Len(chunk_sections)])
                  ELSE Description("Section finale a", chunk_sections[1], 0)))
         ELSE out
    ELSE IF IsBlank(sections[i])
    THEN PackSections(sections, i + 1, current_chunk, chunk_sections, out)
    ELSE IF /\ TextLen(current_chunk) + TextLen(sections[i]) > max_chars_per_chunk
            /\ TextLen(current_chunk) > 0
    THEN PackSections(sections, i + 1, sections[i], << i >>,
             Append(out, AnalysisUnit(current_chunk, Len(out),
                 IF Len(chunk_sections) > 1
                 THEN Description("Sections médicales a-b", chunk_sections[1],
                                  chunk_sections[Len(chunk_sections)])
                 ELSE Description("Section médicale a", chunk_sections[1], 0))))
    ELSE PackSections(sections, i + 1, current_chunk \o sections[i],
                      Append(chunk_sections, i), out)

\* the loop `for i in range(0, len(text), max_chars_per_chunk)` from offset
\* i on: a slice that is all whitespace is not appended
RECURSIVE Slices(_, _, _)
Slices(text, i, out) ==
    IF i >= TextLen(text) THEN out
    ELSE LET chunk_text == Take(Drop(text, i), max_chars_per_chunk)
         IN  Slices(text, i + max_chars_per_chunk,
                    IF ~IsBlank(chunk_text)
                    THEN Append(out, AnalysisUnit(chunk_text, Len(out),
                             Description("Partie médicale a", Len(out) + 1, 0)))
                    ELSE out)

\* outcome of create_analysis_chunks(text)
create_analysis_chunks(text) ==
    IF TextLen(text) = 0 \/ StripLen(text) < MinChunkInputChars
    THEN [raised |-> TRUE, chunks |-> <<>>]
    ELSE IF TextLen(text) <= max_chars_per_chunk
    THEN [raised |-> FALSE,
          chunks |-> << AnalysisUnit(text, 0,
                            Description("Document médical complet", 0, 0)) >>]
    ELSE LET chunks_ == IF section_markers(text) > 1
                        THEN PackSections(re_split(text, <<>>), 1, <<>>, <<>>, <<>>)
                        ELSE Slices(text, 0, <<>>)
         IN  [raised |-> chunks_ = <<>>, chunks |-> chunks_]

\* step 5 of analyze_manual_organized
Chunk ==
    /\ pc = "chunk"
    /\ LET c == create_analysis_chunks(TextOf(full_text))
       IN  IF c.raised \/ c.chunks = <<>>
           THEN /\ Abort("chunk", pdf_chunks, prepared_pdf, disk_chunks, disk_decrypted)
                /\ UNCHANGED analysis_chunks
           ELSE /\ analysis_chunks' = c.chunks
                /\ pc' = "analyze"
                /\ UNCHANGED << disk_chunks, disk_decrypted, disk_original,
                            failed_stage, result >>
    /\ UNCHANGED << total_pages, encrypted, prepared_pdf, chunks, pdf_chunks,
                    disk_output, extractVars, full_text, analysisVars,
                    synthesis, calls, standaloneVars >>

----------------------------------------------------------------------------
\* analyze_with_gemini_advanced and validate_and_fix_json_with_gemini

\* classes of answer to one generate_content request:
\*   exception  the request raised
\*   empty      no response, or a response without text
\*   parsable   extract_and_validate_json returns its JSON object, after
\*              stripping the fences, cutting at the outer braces and
\*              fix_common_json_errors
\*   badshape   as parsable, but "instrument" is not an object
\*   badlist    as parsable, but "calibration" is null or a number
\*   baditems   as parsable, but an item of "procedures" is not an object
\*   unparsable extract_and_validate_json raises ValueError
Answers ==
    {"exception", "empty", "parsable", "badshape", "badlist", "baditems",
     "unparsable"}

\* extract_and_validate_json returns for an answer of class a
Extractable(a) == a \in {"parsable", "badshape", "badlist", "baditems"}

\* validate_detailed_analysis_result and the counting that follows it accept
\* a payload of class j ("instrument" that is not an object has no .get)
Normalizable(j) == j \in {"parsable", "badlist", "baditems"}

\* a validation that asks for the corrected JSON whatever the local pass gave
validate_and_fix_always_corrected(gen, corr) ==
    IF Extractable(corr)
    THEN [json |-> corr, corrective |-> 1, local |-> "returned"]
    ELSE IF Extractable(gen)
    THEN [json |-> gen, corrective |-> 1, local |-> "returned"]
    ELSE [json |-> "raise", corrective |-> 1, local |-> "raised"]

\* validate_and_fix_json_with_gemini on the text of a first answer of class
\* gen, the corrective request being answered by corr: the class of the JSON
\* it returns ("raise": ValueError), the corrective requests it sent, and
\* whether its first extract_and_validate_json call returned or raised
validate_and_fix_json_with_gemini(gen, corr) ==
    IF Extractable(gen)
    THEN [json |-> gen, corrective |-> 0, local |-> "returned"]
    ELSE IF Extractable(corr)
    THEN [json |-> corr, corrective |-> 1, local |-> "raised"]
    ELSE [json |-> "raise", corrective |-> 1, local |-> "raised"]

\* one pass through the try block of analyze_with_gemini_advanced
AnalysisPass(gen, corr) ==
    IF gen \in {"exception", "empty"}
    THEN [ok |-> FALSE, shape |-> "none", corrective |-> 0, json |-> "none",
          local |-> "none"]
    ELSE LET v == validate_and_fix_json_with_gemini(gen, corr)
         IN  [ok |-> Normalizable(v.json),
              shape |-> IF Normalizable(v.json) THEN v.json ELSE "none",
              corrective |-> v.corrective,
              json |-> v.json,
              local |-> v.local]

\* len(result['resume_section']) and len(result['instrument']['nom']) of the
\* records analyze_with_gemini_advanced returns: no summary and the name
\* validate_detailed_analysis_result puts in, or a summary of 400 characters
\* and a name of the payload
Summaries ==
    { [resume_len |-> 0, nom_len |-> UnidentifiedNomLen],
      [resume_len |-> 400, nom_len |-> 10] }

\* variant: the whole context is put in the prompt
PromptContextWhole(c) == IF c = 0 THEN 17 ELSE c

\* length of the text the prompt gives as CONTEXTE PRECEDENT for a context
\* of c characters: context[-300:] if context else "Début du document"
PromptContextLen(c) == IF c = 0 THEN 17 ELSE Min(c, ContextWindow)

\* characters the driver appends to context after the unit u gave the
\* record r: the description and summary line, then the instrument line
ContextAppended(u, r) ==
    (DescriptionLen(u.description) + 2 + r.resume_len + 1)
    + (IF r.nom_len > 0 THEN 12 + r.nom_len + 1 ELSE 0)

\* one pass of the loop `for attempt in range(2)` for the current unit, and
\* what the caller does with the record or the exception
AnalyzeAttempt ==
    /\ pc = "analyze"
    /\ \E gen \in Answers, corr \in Answers, r \in Summaries :
         LET a == AnalysisPass(gen, corr)
         IN  /\ calls' = [calls EXCEPT !.generate = @ + 1,
                                       !.corrective = @ + a.corrective]
             /\ prompt_context' = PromptContextLen(context)
             /\ IF a.ok
                THEN /\ chunk_analyses' = Append(chunk_analyses,
                                             [unit |-> an_i, shape |-> a.shape])
                     /\ context' = context + ContextAppended(analysis_chunks[an_i], r)
                     /\ pc' = IF an_i < Len(analysis_chunks)
                              THEN "analyze_delay" ELSE "synthesize"
                     /\ UNCHANGED << an_i, an_attempt, disk_chunks,
                                     disk_decrypted, disk_original,
                                     failed_stage, result >>
                ELSE IF an_attempt < AnalysisAttempts - 1
                THEN /\ an_attempt' = an_attempt + 1
                     /\ UNCHANGED << pc, an_i, chunk_analyses, context, disk_chunks,
                                     disk_decrypted, disk_original, failed_stage, result >>
                ELSE /\ Abort("analyze", pdf_chunks, prepared_pdf, disk_chunks,
                              disk_decrypted)
                     /\ UNCHANGED << an_i, an_attempt, chunk_analyses, context >>
    /\ UNCHANGED << total_pages, encrypted, prepared_pdf, chunks, pdf_chunks,
                    disk_output, extractVars, full_text, analysis_chunks,
                    synthesis, standaloneVars >>

\* time.sleep(delay) between two units, then the next loop iteration and
\* its call of analyze_with_gemini_advanced
AnalyzeDelay ==
    /\ pc = "analyze_delay"
    /\ pc' = "analyze"
    /\ an_i' = an_i + 1
    /\ an_attempt' = 0
    /\ calls' = time_sleep(calls)
    /\ UNCHANGED << total_pages, encrypted, prepared_pdf, chunks, pdf_chunks,
                    diskVars, extractVars, full_text, analysis_chunks,
                    chunk_analyses, context, prompt_context, synthesis,
                    failed_stage, result, standaloneVars >>

\* KeyboardInterrupt raised in one of the two time.sleep(delay) calls: it is
\* not an Exception, so the except clause and emergency_cleanup are skipped
\* and no result is returned
Interrupt ==
    /\ pc \in {"extract_delay", "analyze_delay"}
    /\ pc' = "interrupted"
    /\ UNCHANGED << total_pages, encrypted, prepared_pdf, chunks, pdf_chunks,
                    diskVars, extractVars, full_text, analysis_chunks,
                    analysisVars, synthesis, calls, failed_stage, result,
                    standaloneVars >>

----------------------------------------------------------------------------
\* synthesize_final_medical

\* top-level keys of the record the synthesis prompt asks for
SchemaKeys ==
    {"informations_generales", "procedures_analyses", "maintenance_preventive",
     "guide_utilisation_quotidienne", "resume_executif"}

\* top-level keys of the dictionary create_comprehensive_fallback_synthesis
\* builds
FallbackKeys ==
    {"informations_generales", "procedures_analyses", "maintenance_preventive",
     "guide_utilisation_quotidienne", "resume_executif"}

RaisedSynthesis == [origin |-> "raised", keys |-> {}]

\* proc.get(...) on an item that is not an object raises
create_comprehensive_fallback_synthesis(analyses) ==
    IF \E k \in 1..Len(analyses) : analyses[k].shape = "baditems"
    THEN RaisedSynthesis
    ELSE [origin |-> "fallback", keys |-> FallbackKeys]

\* the request of the try block succeeded and its answer went through
\* validate_and_fix_json_with_gemini and json.loads
ConsolidationParsed(gen, corr) ==
    /\ gen \notin {"exception", "empty"}
    /\ validate_and_fix_json_with_gemini(gen, corr).json # "raise"

\* the field-level reduction ran to its end: list.extend(...) of a value
\* that is not iterable raises before the try block is entered
ReductionRaises(analyses) ==
    \E k \in 1..Len(analyses) : analyses[k].shape = "badlist"

\* the record synthesize_final_medical returns (origin "raised": it raised)
\* when its request is answered by gen and its corrective request by corr
synthesize_final_medical(analyses, gen, corr) ==
    IF analyses = <<>> \/ ReductionRaises(analyses)
    THEN RaisedSynthesis
    ELSE IF ConsolidationParsed(gen, corr)
    THEN [origin |-> "llm", keys |-> SchemaKeys]
    ELSE create_comprehensive_fallback_synthesis(analyses)

\* capability requests synthesize_final_medical sends
SynthesisRequests(analyses, gen, corr) ==
    IF analyses = <<>> \/ ReductionRaises(analyses) THEN 0 ELSE 1

\* step 7 of analyze_manual_organized
Synthesize ==
    /\ pc = "synthesize"
    /\ \E gen \in Answers, corr \in Answers :
         LET syn == synthesize_final_medical(chunk_analyses, gen, corr)
         IN  /\ calls' = [calls EXCEPT
                            !.synthesis = @ + 1,
                            !.consolidate = @ + SynthesisRequests(chunk_analyses, gen, corr)]
             /\ IF syn.origin = "raised"
                THEN /\ Abort("synthesize", pdf_chunks, prepared_pdf, disk_chunks,
                              disk_decrypted)
                     /\ UNCHANGED synthesis
                ELSE /\ synthesis' = syn
                     /\ pc' = "render"
                     /\ UNCHANGED << disk_chunks, disk_decrypted, disk_original,
                                     failed_stage,
                                     result >>
    /\ UNCHANGED << total_pages, encrypted, prepared_pdf, chunks, pdf_chunks,
                    disk_output, extractVars, full_text, analysis_chunks,
                    analysisVars, standaloneVars >>

----------------------------------------------------------------------------
\* LatexSynthesisGenerator.generate_latex_synthesis and steps 8 to 10

\* positional arguments of the call in analyze_manual_organized:
\* synthesis, output_pdf, the title and language
RenderArgsPassed == 4

\* Outcome of a call of generate_latex_synthesis with nargs positional
\* arguments while the output file is present or not (out).  compiled:
\* compile_latex_comprehensive copied a PDF to output_path; big: that PDF has
\* at least 10000 bytes.  A call with more arguments than the method
\* has parameters raises TypeError before the body runs.
generate_latex_synthesis(nargs, compiled, big, out) ==
    IF nargs # RendererParams
    THEN [raised |-> TRUE, value |-> FALSE, pdf |-> out]
    ELSE IF ~compiled
    THEN [raised |-> FALSE, value |-> FALSE, pdf |-> out]
    ELSE IF ~big
    THEN [raised |-> FALSE, value |-> FALSE, pdf |-> FALSE]
    ELSE [raised |-> FALSE, value |-> TRUE, pdf |-> TRUE]

\* variant: only the returned flag is looked at
RenderFailedFlagOnly(r) == ~r.raised /\ ~r.value

\* the call raised, or `if not pdf_success` raises RuntimeError
RenderFailed(r) == r.raised \/ ~r.value

\* calculate_comprehensive_stats raises on the record syn: the fallback
\* record is built with the types the function reads, the record of the
\* capability has them (typed) or not
StatsRaise(syn, typed) == syn.origin = "llm" /\ ~typed

\* steps 8, 9 and 10 of analyze_manual_organized and its return
Render ==
    /\ pc = "render"
    /\ \E compiled \in BOOLEAN, big \in BOOLEAN, typed \in BOOLEAN :
         LET r == generate_latex_synthesis(RenderArgsPassed, compiled, big, disk_output)
             c == cleanup_temp_files(pdf_chunks, prepared_pdf, disk_chunks, disk_decrypted)
         IN  /\ calls' = [calls EXCEPT !.render = @ + 1]
             /\ disk_output' = r.pdf
             /\ IF RenderFailed(r)
                THEN Abort("render", pdf_chunks, prepared_pdf, disk_chunks,
                           disk_decrypted)
                ELSE IF StatsRaise(synthesis, typed)
                THEN \* step 10 raises after step 9 has cleaned up
                     Abort("stats", pdf_chunks, prepared_pdf, c.chunks,
                           c.decrypted)
                ELSE /\ disk_chunks' = c.chunks
                     /\ disk_decrypted' = c.decrypted
                     /\ disk_original' = (disk_original /\ ~c.original_unlinked)
                     /\ result' = SuccessResult
                     /\ pc' = "done"
                     /\ UNCHANGED failed_stage
    /\ UNCHANGED << total_pages, encrypted, prepared_pdf, chunks, pdf_chunks,
                    extractVars, full_text, analysis_chunks, analysisVars,
                    synthesis, standaloneVars >>

----------------------------------------------------------------------------
\* A run of analyze_manual_organized

NoCalls ==
    [ocr |-> 0, generate |-> 0, corrective |-> 0, synthesis |-> 0,
     consolidate |-> 0, render |-> 0, delays |-> 0]

Init ==
    /\ pc = "prepare"
    /\ total_pages \in 0..MaxPages
    /\ encrypted \in BOOLEAN
    /\ prepared_pdf = "None"
    /\ chunks = <<>>
    /\ pdf_chunks = <<>>
    /\ disk_chunks = {}
    /\ disk_decrypted = FALSE
    /\ disk_original = TRUE
    /\ disk_output = FALSE
    /\ ext_i = 1
    /\ attempt = 0
    /\ waits = <<>>
    /\ chunk_texts = <<>>
    /\ full_text = <<>>
    /\ analysis_chunks = <<>>
    /\ an_i = 1
    /\ an_attempt = 0
    /\ chunk_analyses = <<>>
    /\ context = 0
    /\ prompt_context = 0
    /\ synthesis = NoSynthesis
    /\ calls = NoCalls
    /\ failed_stage = "none"
    /\ result = NoResult
    /\ m_in = <<>>
    /\ m_out = [called |-> FALSE, raised |-> FALSE, cause |-> 0, sections |-> <<>>]
    /\ f_in = <<>>
    /\ f_out = <<>>

Next ==
    \/ Prepare
    \/ SplitDirect
    \/ SplitWrite
    \/ ExtractAttempt
    \/ ExtractDelay
    \/ Merge
    \/ Chunk
    \/ AnalyzeAttempt
    \/ AnalyzeDelay
    \/ Interrupt
    \/ Synthesize
    \/ Render

Spec == Init /\ [][Next]_vars

----------------------------------------------------------------------------
\* merge_texts_medical called on its own, on any list of extraction results

\* text lengths of the results handed to it (0: no text)
MergeLens == {0, 40, 50, 51, 100}

\* the results handed to it: as extract_text_safe returns them, and one
\* whose char_count is not the length of its text
MergeResults ==
    {[text_len |-> t, pages |-> max_pages_per_request,
      name_len |-> SourceNameLen, char_count |-> t] : t \in MergeLens}
    \cup {[text_len |-> 100, pages |-> max_pages_per_request,
            name_len |-> SourceNameLen, char_count |-> 99]}

MergeInputs == UNION {[1..n -> MergeResults] : n \in 1..MaxResults}

InitMerge ==
    /\ pc = "standalone"
    /\ total_pages = 0
    /\ encrypted = FALSE
    /\ prepared_pdf = "None"
    /\ chunks = <<>>
    /\ pdf_chunks = <<>>
    /\ disk_chunks = {}
    /\ disk_decrypted = FALSE
    /\ disk_original = TRUE
    /\ disk_output = FALSE
    /\ ext_i = 1
    /\ attempt = 0
    /\ waits = <<>>
    /\ chunk_texts = <<>>
    /\ full_text = <<>>
    /\ analysis_chunks = <<>>
    /\ an_i = 1
    /\ an_attempt = 0
    /\ chunk_analyses = <<>>
    /\ context = 0
    /\ prompt_context = 0
    /\ synthesis = NoSynthesis
    /\ calls = NoCalls
    /\ failed_stage = "none"
    /\ result = NoResult
    /\ m_in \in MergeInputs
    /\ m_out = [called |-> FALSE, raised |-> FALSE, cause |-> 0, sections |-> <<>>]
    /\ f_in = <<>>
    /\ f_out = <<>>

MergeCall ==
    /\ pc = "standalone"
    /\ ~m_out.called
    /\ m_out' = [called   |-> TRUE,
                 raised   |-> merge_texts_medical(m_in).raised,
                 cause    |-> merge_texts_medical(m_in).cause,
                 sections |-> merge_texts_medical(m_in).sections]
    /\ UNCHANGED << pc, total_pages, encrypted, prepared_pdf, chunks, pdf_chunks,
                    diskVars, extractVars, full_text, analysis_chunks,
                    analysisVars, synthesis, calls, failed_stage, result, m_in,
                    f_in, f_out >>

NextMerge == MergeCall

SpecMerge == InitMerge /\ [][NextMerge]_vars

----------------------------------------------------------------------------
\* Functions called on their own: the driver is not running

DriverAtRest ==
    /\ pc = "standalone"
    /\ total_pages = 0
    /\ encrypted = FALSE
    /\ prepared_pdf = "None"
    /\ chunks = <<>>
    /\ pdf_chunks = <<>>
    /\ disk_chunks = {}
    /\ disk_decrypted = FALSE
    /\ disk_original = TRUE
    /\ disk_output = FALSE
    /\ ext_i = 1
    /\ attempt = 0
    /\ waits = <<>>
    /\ chunk_texts = <<>>
    /\ full_text = <<>>
    /\ analysis_chunks = <<>>
    /\ an_i = 1
    /\ an_attempt = 0
    /\ chunk_analyses = <<>>
    /\ context = 0
    /\ prompt_context = 0
    /\ synthesis = NoSynthesis
    /\ calls = NoCalls
    /\ failed_stage = "none"
    /\ result = NoResult
    /\ m_in = <<>>
    /\ m_out = [called |-> FALSE, raised |-> FALSE, cause |-> 0, sections |-> <<>>]

driverVars ==
    << pc, total_pages, encrypted, prepared_pdf, chunks, pdf_chunks, diskVars,
       extractVars, full_text, analysis_chunks, analysisVars, synthesis, calls,
       failed_stage, result, m_in, m_out >>

----------------------------------------------------------------------------
\* create_analysis_chunks called on its own, on any text

\* the runs its input texts are made of: the header merge_texts_medical
\* writes for a first sub-document of 400,000 characters, a bare header,
\* and runs of plain and of whitespace characters
ChunkRuns ==
    { Run("H", HeaderLen(1, [pages |-> max_pages_per_request,
                             text_len |-> 400000,
                             name_len |-> SourceNameLen])),
      Run("S", 181 + Digits(1)),
      Run("x", 300), Run("x", 200000), Run("x", max_chars_per_chunk),
      Run("w", 2), Run("w", max_chars_per_chunk) }

ChunkInputs == UNION {[1..n -> ChunkRuns] : n \in 1..MaxRuns}

InitChunk ==
    /\ DriverAtRest
    /\ f_in \in ChunkInputs
    /\ f_out = [called |-> FALSE, raised |-> FALSE, chunks |-> <<>>]

ChunkCall ==
    /\ pc = "standalone"
    /\ ~f_out.called
    /\ f_out' = [called |-> TRUE,
                 raised |-> create_analysis_chunks(f_in).raised,
                 chunks |-> create_analysis_chunks(f_in).chunks]
    /\ UNCHANGED << driverVars, f_in >>

NextChunk == ChunkCall

SpecChunk == InitChunk /\ [][NextChunk]_vars

----------------------------------------------------------------------------
\* Properties of a run (specification Spec)

PreConsolidationStages == {"split", "extract", "merge", "chunk", "analyze"}

\* C1: a terminal failure of the split, of an extraction, of the merge, of
\* the chunking or of the analysis of a unit ends the run at that point: the
\* result is returned with success = false, the sub-documents and units
\* after the failing one were never handed to a capability, and neither
\* consolidation nor rendering was invoked.
C1_TerminalFailureStopsRun ==
    failed_stage \in PreConsolidationStages =>
        /\ pc = "done"
        /\ result.returned /\ ~result.success
        /\ calls.synthesis = 0 /\ calls.consolidate = 0 /\ calls.render = 0
        /\ synthesis = NoSynthesis
        /\ failed_stage = "split" => calls.ocr = 0 /\ chunk_texts = <<>>
        /\ failed_stage = "extract" =>
               /\ Len(chunk_texts) = ext_i - 1
               /\ calls.ocr <= max_retries * ext_i
        /\ failed_stage \in {"split", "extract", "merge", "chunk"} =>
               /\ calls.generate = 0
               /\ chunk_analyses = <<>>
        /\ failed_stage = "analyze" =>
               /\ Len(chunk_analyses) = an_i - 1
               /\ calls.generate <= AnalysisAttempts * an_i

\* the second of three sub-documents failed: the third was never extracted
C1_Witness ==
    /\ failed_stage = "extract"
    /\ Len(pdf_chunks) = 3
    /\ ext_i = 2
    /\ result.returned /\ ~result.success

\* the record comes with a key that the consolidated record does not have
FallbackTagged(syn) == syn.keys \ SchemaKeys # {}

\* C2 (as claimed): when the consolidation request fails the run ends with
\* success = true and a record that is tagged as a fallback.
C2_FallbackRunSucceeds ==
    (pc = "done" /\ synthesis.origin = "fallback") =>
        /\ result.success
        /\ FallbackTagged(synthesis)

\* C3: a returned result carries exactly one of the synthesis record and the
\* error string: the record when success is true, the error when it is false.
C3_RecordXorError ==
    result.returned =>
        /\ ("synthesis" \in result.keys) # ("error" \in result.keys)
        /\ result.success <=> ("synthesis" \in result.keys)
        /\ ~result.success <=> ("error" \in result.keys)

\* a run that got as far as a synthesis record and then failed
C3_Witness ==
    /\ pc = "done"
    /\ result.returned
    /\ synthesis # NoSynthesis
    /\ "error" \in result.keys

\* C4 (as claimed): when a run returns success = false, no chunk file of the
\* splitter and no decrypted copy is left on disk.
C4_AbortLeavesNoTempFile ==
    (result.returned /\ ~result.success) =>
        /\ disk_chunks = {}
        /\ ~disk_decrypted

\* C5: a failed rendering makes the run fail and leaves no PDF at the output
\* path; success = true is reported only after a rendering that succeeded.
C5_RenderFailureFailsRun ==
    /\ failed_stage = "render" =>
           /\ result.returned /\ ~result.success
           /\ ~disk_output
    /\ result.success =>
           /\ calls.render = 1
           /\ failed_stage = "none"
           /\ disk_output

\* the renderer was called and the run failed there
C5_Witness ==
    /\ pc = "done"
    /\ calls.render = 1
    /\ failed_stage = "render"
    /\ ~result.success

\* C6 (as claimed): a run cancelled at a stage boundary has deleted its chunk
\* files and its decrypted copy when it ends.
C6_CancelledRunCleansUp ==
    pc = "interrupted" =>
        /\ disk_chunks = {}
        /\ ~disk_decrypted

\* C7: the splitter returns one sub-document, the whole document, for
\* P <= 15 pages, and ceil(P / 15) sub-documents for more; their page ranges
\* are contiguous, start at page 1, end at page P, and hold 15 pages each
\* except the last one, which holds between 1 and 15.
C7_SplitCoversPages ==
    pdf_chunks # <<>> =>
        LET P == total_pages
            L == max_pages_per_request
            n == Len(pdf_chunks)
        IN  /\ P > 0
            /\ pdf_chunks[1].first = 1
            /\ pdf_chunks[n].last = P
            /\ P <= L => n = 1 /\ pdf_chunks[1].kind = "prepared"
            /\ P > L =>
                 /\ n = (P + L - 1) \div L
                 /\ \A k \in 1..n :
                      /\ pdf_chunks[k].kind = "chunk"
                      /\ pdf_chunks[k].ord = k
                      /\ pdf_chunks[k].first <= pdf_chunks[k].last
                      /\ k < n => pdf_chunks[k].last - pdf_chunks[k].first + 1 = L
                      /\ k < n => pdf_chunks[k + 1].first = pdf_chunks[k].last + 1
                      /\ pdf_chunks[k].last - pdf_chunks[k].first + 1 \in 1..L

\* a document split in three, the last sub-document shorter than the others
C7_Witness ==
    /\ Len(pdf_chunks) = 3
    /\ total_pages > 2 * max_pages_per_request
    /\ pdf_chunks[3].last - pdf_chunks[3].first + 1 < max_pages_per_request

\* C8 (as claimed): the terminal extraction failure is raised after
\* max_retries retries of the initial attempt, each retry preceded by a wait
\* of its index times 3 seconds.
C8_RetriesAfterInitialAttempt ==
    failed_stage = "extract" =>
        /\ attempt = max_retries
        /\ waits = [k \in 1..max_retries |-> k * BackoffUnit]

\* C9: every extraction result has at least 100 characters of text and a
\* char_count equal to the length of its text.
C9_ExtractionResultLongEnough ==
    \A k \in 1..Len(chunk_texts) :
        /\ chunk_texts[k].text_len >= MinExtractChars
        /\ chunk_texts[k].text_len > 0
        /\ chunk_texts[k].char_count = chunk_texts[k].text_len

\* a result of exactly 100 characters returned by the retry of a failed attempt
C9_Witness ==
    /\ chunk_texts # <<>>
    /\ chunk_texts[Len(chunk_texts)].text_len = MinExtractChars
    /\ attempt = 1
    /\ Len(waits) = 1

----------------------------------------------------------------------------
\* Properties of merge_texts_medical (specification SpecMerge)

\* C10 (as claimed): merge_texts_medical raises exactly when one of the
\* results has fewer than 50 characters of text; otherwise every result is
\* in the merged text.
C10_MergeRaisesIffBelowMinimum ==
    m_out.called =>
        /\ m_out.raised <=> (\E k \in 1..Len(m_in) : m_in[k].text_len < MinMergeChars)
        /\ ~m_out.raised => Len(m_out.sections) = Len(m_in)

----------------------------------------------------------------------------
\* Properties of create_analysis_chunks (specification SpecChunk)

\* the texts of the units of a list, joined in chunk_id order
RECURSIVE JoinedText(_)
JoinedText(us) ==
    IF us = <<>> THEN <<>> ELSE Head(us).text \o JoinedText(Tail(us))

\* C11: every unit create_analysis_chunks returns has char_count equal to
\* the length of its text and at most max_chars_per_chunk = 350,000
\* characters, whichever of the three paths produced it.
C11_UnitsWithinBudget ==
    (f_out.called /\ ~f_out.raised) =>
        \A k \in 1..Len(f_out.chunks) :
            /\ f_out.chunks[k].char_count = TextLen(f_out.chunks[k].text)
            /\ f_out.chunks[k].char_count <= max_chars_per_chunk

\* C12: for every text create_analysis_chunks accepts, the texts of the
\* returned units joined in chunk_id order are the input text, character
\* for character.
C12_UnitsRebuildText ==
    (f_out.called /\ ~f_out.raised) =>
        /\ \A k \in 1..Len(f_out.chunks) : f_out.chunks[k].chunk_id = k - 1
        /\ Chars(JoinedText(f_out.chunks)) = Chars(f_in)

----------------------------------------------------------------------------
\* analyze_with_gemini_advanced called on its own, for one unit

\* nothing done yet: the loop variable, the passes through the try block so
\* far, and whether the call returned a record or raised RuntimeError
NoAnalysisCall ==
    [attempt |-> 0, passes |-> <<>>, returned |-> FALSE, raised |-> FALSE]

InitAnalyze ==
    /\ DriverAtRest
    /\ f_in \in {0, ContextWindow + 1}
    /\ f_out = NoAnalysisCall

\* one pass of the loop `for attempt in range(2)`; f_in is len(context)
AnalyzePass ==
    /\ pc = "standalone"
    /\ ~f_out.returned /\ ~f_out.raised
    /\ \E gen \in Answers, corr \in Answers :
         LET a == AnalysisPass(gen, corr)
             p == [gen            |-> gen,
                   corr           |-> IF a.corrective = 1 THEN corr ELSE "none",
                   corrective     |-> a.corrective,
                   json           |-> a.json,
                   ok             |-> a.ok,
                   prompt_context |-> PromptContextLen(f_in)]
         IN  f_out' = [attempt  |-> IF ~a.ok /\ f_out.attempt < AnalysisAttempts - 1
                                    THEN f_out.attempt + 1 ELSE f_out.attempt,
                       passes   |-> Append(f_out.passes, p),
                       returned |-> a.ok,
                       raised   |-> ~a.ok /\ f_out.attempt >= AnalysisAttempts - 1]
    /\ UNCHANGED << driverVars, f_in >>

NextAnalyze == AnalyzePass

SpecAnalyze == InitAnalyze /\ [][NextAnalyze]_vars

----------------------------------------------------------------------------
\* Properties of analyze_with_gemini_advanced (specification SpecAnalyze)

\* generate_content requests of a list of passes: one generation request
\* each, plus the corrective request where one was sent
RECURSIVE Requests(_)
Requests(ps) ==
    IF ps = <<>> THEN 0 ELSE 1 + Head(ps).corrective + Requests(Tail(ps))

RECURSIVE CorrectiveRequests(_)
CorrectiveRequests(ps) ==
    IF ps = <<>> THEN 0 ELSE Head(ps).corrective + CorrectiveRequests(Tail(ps))

\* C13: the analysis of one unit makes at most 2 capability requests, one
\* generation request and at most one corrective request, and raises its
\* failure when neither gave a parsable payload: no second corrective round.
C13_AtMostTwoRequestsPerUnit ==
    /\ Requests(f_out.passes) <= 2
    /\ CorrectiveRequests(f_out.passes) <= 1

\* C14: a response that extract_and_validate_json can parse on its own
\* (fences stripped, braces cut out, fix_common_json_errors applied) gives
\* the parsed payload without a corrective request; a corrective request is
\* sent only for a response with text on which that local pass raised.
C14_CorrectiveOnlyAfterLocalFailure ==
    \A k \in 1..Len(f_out.passes) :
        LET p == f_out.passes[k]
        IN  /\ Extractable(p.gen) => (p.corrective = 0 /\ p.json = p.gen)
            /\ p.corrective = 1 =>
                   (~Extractable(p.gen) /\ p.gen \notin {"exception", "empty"})

C14_Witness ==
    /\ f_out.returned
    /\ Len(f_out.passes) = 2
    /\ f_out.passes[1].gen = "unparsable" /\ f_out.passes[1].corrective = 1
    /\ f_out.passes[2].gen = "parsable" /\ f_out.passes[2].corrective = 0

----------------------------------------------------------------------------
\* Properties of the running context (specification Spec)

----------------------------------------------------------------------------
\* fix_common_json_errors, on texts as sequences of characters

QUOTE == "\""
BACKSLASH == "\\"
NEWLINE == "\n"

\* characters of the model's texts that \s matches
IsSpace(c) == c \in {" ", NEWLINE}

\* first position at or after i whose character is not whitespace
RECURSIVE SkipSpace(_, _)
SkipSpace(t, i) == IF i > Len(t) \/ ~IsSpace(t[i]) THEN i ELSE SkipSpace(t, i + 1)

\* re.sub(r',(\s*[}\]])', r'\1', t) for closers = {"}", "]"} and
\* re.sub(r',(\s*\])', r'\1', t) for closers = {"]"}, from position i on: a
\* comma followed by whitespace and a closer is dropped
RECURSIVE DropCommaBefore(_, _, _)
DropCommaBefore(t, i, closers) ==
    IF i > Len(t) THEN <<>>
    ELSE (IF /\ t[i] = ","
             /\ SkipSpace(t, i + 1) <= Len(t)
             /\ t[SkipSpace(t, i + 1)] \in closers
          THEN <<>> ELSE << t[i] >>) \o DropCommaBefore(t, i + 1, closers)

\* json_text.split('\n'); cur is the line being collected
RECURSIVE SplitLines(_, _)
SplitLines(t, cur) ==
    IF t = <<>> THEN << cur >>
    ELSE IF Head(t) = NEWLINE THEN << cur >> \o SplitLines(Tail(t), <<>>)
    ELSE SplitLines(Tail(t), Append(cur, Head(t)))

\* '\n'.join(corrected_lines)
RECURSIVE JoinLines(_)
JoinLines(ls) ==
    IF Len(ls) = 0 THEN <<>>
    ELSE IF Len(ls) = 1 THEN ls[1]
    ELSE ls[1] \o << NEWLINE >> \o JoinLines(Tail(ls))

\* the separator '": "' between a key and a string value
KeyValueMark == << QUOTE, ":", " ", QUOTE >>

\* line.find('": "') from position i on, 1-based; 0: not found
RECURSIVE FindMark(_, _)
FindMark(line, i) ==
    IF i + 3 > Len(line) THEN 0
    ELSE IF SubSeq(line, i, i + 3) = KeyValueMark THEN i
    ELSE FindMark(line, i + 1)

\* last position at or before i whose character is not whitespace; 0: none
RECURSIVE LastNonSpace(_, _)
LastNonSpace(t, i) == IF i = 0 \/ ~IsSpace(t[i]) THEN i ELSE LastNonSpace(t, i - 1)

\* line.strip().endswith(c) for one of the characters of cs
StrippedEndsWith(line, cs) ==
    LastNonSpace(line, Len(line)) > 0 /\ line[LastNonSpace(line, Len(line))] \in cs

\* value_part.rfind('"') searched from position i down, 1-based; 0: none
RECURSIVE LastQuote(_, _)
LastQuote(t, i) == IF i = 0 \/ t[i] = QUOTE THEN i ELSE LastQuote(t, i - 1)

\* value_content.replace('"', '\\"')
RECURSIVE EscapeQuotes(_)
EscapeQuotes(t) ==
    IF t = <<>> THEN <<>>
    ELSE (IF Head(t) = QUOTE THEN << BACKSLASH, QUOTE >> ELSE << Head(t) >>)
         \o EscapeQuotes(Tail(t))

\* the body of the loop `for line in lines`
FixLine(line) ==
    IF FindMark(line, 1) # 0 /\ ~StrippedEndsWith(line, {",", "{", "["})
    THEN LET k          == FindMark(line, 1)
             key_part   == SubSeq(line, 1, k - 1)
             value_part == SubSeq(line, k + 4, Len(line))
             end_quote  == LastQuote(value_part, Len(value_part)) - 1
         IN  IF end_quote > 0
             THEN key_part \o KeyValueMark
                  \o EscapeQuotes(SubSeq(value_part, 1, end_quote))
                  \o SubSeq(value_part, end_quote + 1, Len(value_part))
             ELSE line
    ELSE line

\* re.sub(r'[\x00-\x1f\x7f-\x9f]', ' ', t): the newline is one of them
ControlToSpace(t) == [i \in DOMAIN t |-> IF t[i] = NEWLINE THEN " " ELSE t[i]]

\* re.sub(r',,+', ',', t) from position i on
RECURSIVE SqueezeCommas(_, _)
SqueezeCommas(t, i) ==
    IF i > Len(t) THEN <<>>
    ELSE (IF t[i] = "," /\ i > 1 /\ t[i - 1] = "," THEN <<>> ELSE << t[i] >>)
         \o SqueezeCommas(t, i + 1)

fix_common_json_errors(json_text) ==
    LET s1    == DropCommaBefore(json_text, 1, {"}", "]"})
        lines == SplitLines(s1, <<>>)
        s2    == JoinLines([i \in DOMAIN lines |-> FixLine(lines[i])])
        s3    == ControlToSpace(s2)
        s4    == DropCommaBefore(s3, 1, {"]"})
    IN  SqueezeCommas(s4, 1)

----------------------------------------------------------------------------
\* fix_common_json_errors called on its own, twice, on valid JSON texts

\* the values of the members: a string, a string with an escaped quote, a
\* number and a list of one string
JsonValues ==
    { << QUOTE, "x", QUOTE >>,
      << QUOTE, "x", BACKSLASH, QUOTE, "y", QUOTE >>,
      << "1" >>,
      << "[", QUOTE, "x", QUOTE, "]" >> }

\* the key of the k-th member
JsonKey(k) == << QUOTE, IF k = 1 THEN "a" ELSE IF k = 2 THEN "b" ELSE "c", QUOTE >>

\* what the writer of the text puts after a key, between two members, and
\* inside the braces
JsonColons == { << ":" >>, << ":", " " >> }
JsonCommas == { << "," >>, << ",", " " >>, << ",", NEWLINE >> }
JsonPads == { <<>>, << NEWLINE >> }

\* the members vs[k..] written with the colon col and the comma com
RECURSIVE JsonMembers(_, _, _, _)
JsonMembers(vs, k, col, com) ==
    IF k > Len(vs) THEN <<>>
    ELSE JsonKey(k) \o col \o vs[k]
         \o (IF k < Len(vs) THEN com ELSE <<>>)
         \o JsonMembers(vs, k + 1, col, com)

\* the JSON objects of 1 to MaxMembers members
ValidJsonTexts ==
    { << "{" >> \o pad \o JsonMembers(vs, 1, col, com) \o pad \o << "}" >> :
        vs \in UNION {[1..n -> JsonValues] : n \in 1..MaxMembers},
        col \in JsonColons, com \in JsonCommas, pad \in JsonPads }

InitRepair ==
    /\ DriverAtRest
    /\ f_in \in ValidJsonTexts
    /\ f_out = [calls |-> 0, once |-> <<>>, twice |-> <<>>]

\* fix_common_json_errors(x)
RepairOnce ==
    /\ pc = "standalone"
    /\ f_out.calls = 0
    /\ f_out' = [calls |-> 1, once |-> fix_common_json_errors(f_in), twice |-> <<>>]
    /\ UNCHANGED << driverVars, f_in >>

\* fix_common_json_errors applied to the result of the first call
RepairAgain ==
    /\ pc = "standalone"
    /\ f_out.calls = 1
    /\ f_out' = [f_out EXCEPT !.calls = 2,
                              !.twice = fix_common_json_errors(f_out.once)]
    /\ UNCHANGED << driverVars, f_in >>

NextRepair == RepairOnce \/ RepairAgain

SpecRepair == InitRepair /\ [][NextRepair]_vars

----------------------------------------------------------------------------
\* Properties of fix_common_json_errors (specification SpecRepair)

\* C15: the local repair pass is idempotent on valid JSON: repairing the
\* repaired text of a valid JSON text gives the repaired text again.
C15_RepairIdempotent == f_out.calls = 2 => f_out.twice = f_out.once

----------------------------------------------------------------------------
\* validate_detailed_analysis_result, on payloads as the types of their
\* fields

required_sections ==
    {"instrument", "procedures", "maintenance", "specifications_techniques",
     "securite", "stockage_reagents", "validation_clinique", "calibration",
     "troubleshooting", "resume_section"}

ListSections ==
    {"procedures", "maintenance", "specifications_techniques", "securite",
     "stockage_reagents", "calibration", "troubleshooting"}

\* What a parsed payload can hold under a key.  "absent": the key is not in
\* the dictionary; "null", "number", "string", "list", "object": the JSON
\* type of the value.  For "instrument" an object is one of
\*   "object_named"       nom is a non-empty string
\*   "object_nom_number"  nom is a number other than 0
\*   "object_unnamed"     a non-empty object without nom, or with an empty one
\*   "object_empty"       {}
\*   "object_sentinel"    nom is "Instrument non identifié"
SectionTypes(section) ==
    IF section = "instrument"
    THEN {"absent", "null", "string", "list", "object_named",
          "object_nom_number", "object_unnamed", "object_empty"}
    ELSE IF section = "validation_clinique"
    THEN {"absent", "null", "string", "object"}
    ELSE IF section = "resume_section"
    THEN {"absent", "null", "string"}
    ELSE {"absent", "null", "string", "list"}

\* a payload with every section as the prompt asks for it
WellTypedPayload ==
    [section \in required_sections |->
        IF section = "instrument" THEN "object_named"
        ELSE IF section = "validation_clinique" THEN "object"
        ELSE IF section = "resume_section" THEN "string"
        ELSE "list"]

\* the payloads that differ from p in at most n sections
RECURSIVE PayloadsNear(_, _)
PayloadsNear(p, n) ==
    IF n = 0 THEN {p}
    ELSE UNION { UNION { PayloadsNear([p EXCEPT ![section] = t], n - 1) :
                             t \in SectionTypes(section) } :
                    section \in required_sections }

\* result[section] = ... for the sections that are not in result
WithDefaults(p) ==
    [section \in required_sections |->
        IF p[section] # "absent" THEN p[section]
        ELSE IF section = "instrument" THEN "object_empty"
        ELSE IF section = "validation_clinique" THEN "object"
        ELSE IF section = "resume_section" THEN "string"
        ELSE "list"]

\* result['procedures'] = [] and result['maintenance'] = [] when they are
\* not lists
WithListsChecked(p) ==
    [p EXCEPT !["procedures"] = "list", !["maintenance"] = "list"]

\* result.get('instrument', {}) has a method get
IsObject(t) ==
    t \in {"object_named", "object_nom_number", "object_unnamed",
           "object_empty", "object_sentinel", "object"}

\* the instrument after the block `if not result.get('instrument',
\* {}).get('nom')`
WithNom(t) ==
    IF t \in {"object_unnamed", "object_empty"} THEN "object_sentinel" ELSE t

\* validate_detailed_analysis_result(p) for a dictionary p: whether it
\* raised (AttributeError: the instrument has no get), the dictionary it
\* returned, and the dictionary p it was given as the call left it; the
\* assignments are made in p itself, which is also what is returned
validate_detailed_analysis_result(p) ==
    LET q == WithListsChecked(WithDefaults(p))
    IN  IF ~IsObject(q["instrument"])
        THEN [raised |-> TRUE, result |-> q, payload |-> q]
        ELSE [raised  |-> FALSE,
              result  |-> [q EXCEPT !["instrument"] = WithNom(@)],
              payload |-> [q EXCEPT !["instrument"] = WithNom(@)]]

\* the sections analyze_with_gemini_advanced takes the len() of after the
\* validation
CountedSections ==
    {"procedures", "maintenance", "specifications_techniques", "securite",
     "stockage_reagents"}

\* len(result.get(section, [])) raises TypeError
HasNoLen(t) == t \in {"null", "number"}

----------------------------------------------------------------------------
\* validate_detailed_analysis_result called on its own as
\* analyze_with_gemini_advanced calls it, on any parsed JSON object

PayloadInputs == PayloadsNear(WellTypedPayload, MaxOddSections)

InitNormalize ==
    /\ DriverAtRest
    /\ f_in \in PayloadInputs
    /\ f_out = [stage |-> "parsed", result |-> f_in, payload |-> f_in]

\* self.validate_detailed_analysis_result(result)
Validate ==
    /\ pc = "standalone"
    /\ f_out.stage = "parsed"
    /\ LET v == validate_detailed_analysis_result(f_in)
       IN  f_out' = [stage   |-> IF v.raised THEN "raised" ELSE "validated",
                     result  |-> v.result,
                     payload |-> v.payload]
    /\ UNCHANGED << driverVars, f_in >>

\* the five len() calls and `return result`
CountAndReturn ==
    /\ pc = "standalone"
    /\ f_out.stage = "validated"
    /\ f_out' = [f_out EXCEPT !.stage =
                    IF \E section \in CountedSections : HasNoLen(f_out.result[section])
                    THEN "raised_counting" ELSE "returned"]
    /\ UNCHANGED << driverVars, f_in >>

NextNormalize == Validate \/ CountAndReturn

SpecNormalize == InitNormalize /\ [][NextNormalize]_vars

----------------------------------------------------------------------------
\* Properties of the normalization (specification SpecNormalize)

\* C16: every record analyze_with_gemini_advanced returns has the ten
\* required sections with the right type: the seven list sections are
\* lists, instrument and validation_clinique are objects, the name of the
\* instrument is a non-empty string, and no section is null or absent.
C16_RecordFullyTyped ==
    f_out.stage = "returned" =>
        /\ \A section \in ListSections : f_out.result[section] = "list"
        /\ f_out.result["instrument"] \in {"object_named", "object_sentinel"}
        /\ f_out.result["validation_clinique"] = "object"
        /\ \A section \in required_sections :
               f_out.result[section] \notin {"null", "absent"}

\* C17: validate_detailed_analysis_result raises for no parsed JSON object,
\* and leaves the payload it was given as it was.
C17_NormalizationTotalAndPure ==
    f_out.stage # "parsed" =>
        /\ f_out.stage # "raised"
        /\ f_out.payload = f_in

----------------------------------------------------------------------------
\* The field-level reduction of synthesize_final_medical and the content of
\* the fallback record, on records with their items and instrument values

\* the k-th item of a list section of the record of unit u (unit 0: of no
\* record)
Item(u, section, k) == [unit |-> u, section |-> section, k |-> k]

\* a list of n items, or null
ListValue(u, section, n) ==
    [null |-> FALSE, items |-> [k \in 1..n |-> Item(u, section, k)]]

NullValue == [null |-> TRUE, items |-> <<>>]

\* A value of the instrument dictionary, by what the reduction looks at:
\* len(str(value)), str(value).strip() being empty (blank),
\* str(value).startswith("Non") (starts_non); placeholder tells the
\* placeholders the program writes from the values a manual gives.
InstrumentValue(id, len, blank, starts_non, placeholder) ==
    [present |-> TRUE, id |-> id, len |-> len, blank |-> blank,
     starts_non |-> starts_non, placeholder |-> placeholder]

\* the key is not in the dictionary
NoValue ==
    [present |-> FALSE, id |-> "", len |-> 0, blank |-> TRUE,
     starts_non |-> FALSE, placeholder |-> FALSE]

\* the name validate_detailed_analysis_result gives an instrument without
\* one
Unidentified ==
    InstrumentValue("Instrument non identifié", UnidentifiedNomLen, FALSE,
                    FALSE, TRUE)

\* the placeholder the prompts ask for when the manual gives no value
Unspecified == InstrumentValue("Non spécifié", 12, FALSE, TRUE, TRUE)

\* the keys of the instrument dictionary the model follows
IdentityKeys == {"nom", "fabricant"}

\* variant: the items of a record are put in front of the list
list_extend_front(all, value) == value.items \o all

\* all_x.extend(analysis.get(section, []))
list_extend(all, value) == all \o value.items

\* all_x for the section after the loop `for i, analysis in
\* enumerate(analyses)` has run from the i-th analysis on
RECURSIVE all_items(_, _, _, _)
all_items(analyses, section, i, all) ==
    IF i > Len(analyses) THEN all
    ELSE all_items(analyses, section, i + 1,
                   list_extend(all, analyses[i].lists[section]))

\* value and str(value).strip() and not str(value).startswith("Non")
Kept(value) ==
    value.present /\ value.len > 0 /\ ~value.blank /\ ~value.starts_non

\* instrument_info.get(key) after the loop has run from the i-th analysis
\* on, cur being its value before
RECURSIVE instrument_info(_, _, _, _)
instrument_info(analyses, key, i, cur) ==
    IF i > Len(analyses) THEN cur
    ELSE LET value == analyses[i].instrument[key]
         IN  instrument_info(analyses, key, i + 1,
                 IF Kept(value) /\ (~cur.present \/ value.len > cur.len)
                 THEN value ELSE cur)

\* seq[:n]
FirstItems(seq, n) == SubSeq(seq, 1, Min(Len(seq), n))

\* the four steps create_comprehensive_fallback_synthesis writes under
\* guide_utilisation_quotidienne.demarrage_systeme: literals of the program,
\* items of no record
StartupSteps == [k \in 1..4 |-> Item(0, "demarrage_systeme", k)]

\* what create_comprehensive_fallback_synthesis takes from its arguments:
\* the name and manufacturer of the instrument, one entry per procedure of
\* procedures[:5] and per maintenance of maintenance[:6]; and the start-up
\* list of the daily guide, which it writes itself
FallbackContent(info, procedures, maintenance) ==
    [nom_instrument         |-> IF info["nom"].present THEN info["nom"]
                                ELSE Unidentified,
     fabricant              |-> IF info["fabricant"].present THEN info["fabricant"]
                                ELSE Unspecified,
     procedures_analyses    |-> FirstItems(procedures, 5),
     maintenance_preventive |-> FirstItems(maintenance, 6),
     demarrage_systeme      |-> StartupSteps]

\* The records the capability may answer the synthesis prompt with, by the
\* same fields.  The prompt shows it instrument_info, all_procedures[:3] and
\* all_maintenance[:3]; the answer is returned as json.loads gave it, so it
\* may hold those items (faithful) or a procedure that stands in no record.
ConsolidatedContents(info, procedures, maintenance) ==
    { [nom_instrument         |-> info["nom"],
       fabricant              |-> info["fabricant"],
       procedures_analyses    |-> FirstItems(procedures, 3) \o extra,
       maintenance_preventive |-> FirstItems(maintenance, 3),
       demarrage_systeme      |-> <<>>]
        : extra \in { <<>>, << Item(0, "procedures", 1) >> } }

\* no record was returned
NoContent ==
    [nom_instrument         |-> NoValue,
     fabricant              |-> NoValue,
     procedures_analyses    |-> <<>>,
     maintenance_preventive |-> <<>>,
     demarrage_systeme      |-> <<>>]

----------------------------------------------------------------------------
\* synthesize_final_medical called on its own, on any list of records

\* a record of unit u with np procedures, nm maintenance items, no items in
\* the other list sections, calibration null or not, and the instrument
\* values nom and fab
Record(u, np, nm, no, calnull, nom, fab) ==
    [unit  |-> u,
     shape |-> IF calnull THEN "badlist" ELSE "parsable",
     lists |-> [section \in ListSections |->
                   IF section = "procedures" THEN ListValue(u, section, np)
                   ELSE IF section = "maintenance" THEN ListValue(u, section, nm)
                   ELSE IF section = "calibration" /\ calnull THEN NullValue
                   ELSE ListValue(u, section, no)],
     instrument |-> [key \in IdentityKeys |-> IF key = "nom" THEN nom ELSE fab]]

Cobas == InstrumentValue("Cobas", 5, FALSE, FALSE, FALSE)

\* records of unit u that differ in their lists
ListRecords(u) ==
    { Record(u, np, nm, no, calnull, Cobas, NoValue) :
        np \in 0..MaxItems, nm \in {0, MaxItems + 1}, no \in {0, 1},
        calnull \in BOOLEAN }

\* records of unit u that differ in their instrument
IdentityRecords(u) ==
    { Record(u, 1, 0, 0, FALSE, nom, fab) :
        nom \in { Cobas,
                  InstrumentValue("Cobas 6000", 10, FALSE, FALSE, FALSE),
                  InstrumentValue("Cobas e411", 10, FALSE, FALSE, FALSE),
                  Unidentified },
        fab \in { NoValue,
                  InstrumentValue("Roche", 5, FALSE, FALSE, FALSE),
                  InstrumentValue("   ", 3, TRUE, FALSE, FALSE),
                  Unspecified } }

\* the lists of 1 to MaxRecords records, one per unit in unit order
RECURSIVE RecordLists(_, _)
RecordLists(n, kind) ==
    IF n = 0 THEN { <<>> }
    ELSE { Append(rs, r) :
             rs \in RecordLists(n - 1, kind),
             r \in IF kind = "lists" THEN ListRecords(n) ELSE IdentityRecords(n) }

SynthesisInputs ==
    UNION { RecordLists(n, "lists") \cup RecordLists(n, "identity") :
              n \in 1..MaxRecords }

NoReduction ==
    [called |-> FALSE, origin |-> "None",
     all |-> [section \in ListSections |-> <<>>],
     instrument_info |-> [key \in IdentityKeys |-> NoValue],
     content |-> NoContent]

InitSynthesis ==
    /\ DriverAtRest
    /\ f_in \in SynthesisInputs
    /\ f_out = NoReduction

\* synthesize_final_medical(f_in): the reduction, the request, the record
\* the capability answered with, and the fallback record when the request
\* gave no record
SynthesisCall ==
    /\ pc = "standalone"
    /\ ~f_out.called
    /\ \E gen \in Answers, corr \in Answers :
         LET syn  == synthesize_final_medical(f_in, gen, corr)
             all  == [section \in ListSections |-> all_items(f_in, section, 1, <<>>)]
             info == [key \in IdentityKeys |-> instrument_info(f_in, key, 1, NoValue)]
         IN  \E answer \in ConsolidatedContents(info, all["procedures"],
                                                  all["maintenance"]) :
               f_out' =
                 IF syn.origin = "raised"
                 THEN [NoReduction EXCEPT !.called = TRUE, !.origin = "raised"]
                 ELSE [called |-> TRUE, origin |-> syn.origin, all |-> all,
                       instrument_info |-> info,
                       content |-> IF syn.origin = "fallback"
                                   THEN FallbackContent(info, all["procedures"],
                                                        all["maintenance"])
                                   ELSE answer]
    /\ UNCHANGED << driverVars, f_in >>

NextSynthesis == SynthesisCall

SpecSynthesis == InitSynthesis /\ [][NextSynthesis]_vars

----------------------------------------------------------------------------
\* Properties of the reduction (specification SpecSynthesis)

\* number of items of the section in the records before the i-th
RECURSIVE ItemsBefore(_, _, _)
ItemsBefore(analyses, section, i) ==
    IF i <= 1 THEN 0
    ELSE ItemsBefore(analyses, section, i - 1)
         + Len(analyses[i - 1].lists[section].items)

RealValues(analyses, key) ==
    { i \in 1..Len(analyses) :
        /\ analyses[i].instrument[key].present
        /\ analyses[i].instrument[key].len > 0
        /\ ~analyses[i].instrument[key].blank
        /\ ~analyses[i].instrument[key].placeholder }

\* C20: for each identity key the consolidated value is the longest real
\* value seen for it across the records, the first seen winning a tie; a
\* placeholder such as the name normalization writes never wins over, and
\* never replaces, a real value of another record.
C20_LongestRealValueWins ==
    (f_out.called /\ f_out.origin # "raised") =>
        \A key \in IdentityKeys :
            \A i \in RealValues(f_in, key) :
                (\A j \in RealValues(f_in, key) :
                     \/ f_in[j].instrument[key].len < f_in[i].instrument[key].len
                     \/ (f_in[j].instrument[key].len = f_in[i].instrument[key].len
                         /\ j >= i))
                => f_out.instrument_info[key] = f_in[i].instrument[key]

\* the items of a section that the records of a list hold
ProvidedItems(analyses, section) ==
    UNION { { analyses[i].lists[section].items[k] :
                k \in DOMAIN analyses[i].lists[section].items }
            : i \in 1..Len(analyses) }

\* the lists of the returned record the model follows, and the section of
\* the records each is built from ("any": the lists of the daily guide
\* have no section of their own)
RecordListFields ==
    { [field |-> "procedures_analyses", section |-> "procedures"],
      [field |-> "maintenance_preventive", section |-> "maintenance"],
      [field |-> "demarrage_systeme", section |-> "any"] }

\* the item stands in the section of one of the records
Sourced(item, analyses, section) ==
    IF section = "any"
    THEN \E s \in ListSections : item \in ProvidedItems(analyses, s)
    ELSE item \in ProvidedItems(analyses, section)

\* C21 (as claimed): every item of every list of a returned synthesis
\* record, consolidated by the capability or built as a fallback, is an item
\* of the corresponding list of one of the chunk records: none is invented.
C21_ListItemsSourcedFromRecords ==
    (f_out.called /\ f_out.origin \in {"llm", "fallback"}) =>
        \A lf \in RecordListFields :
            \A k \in DOMAIN f_out.content[lf.field] :
                Sourced(f_out.content[lf.field][k], f_in, lf.section)

----------------------------------------------------------------------------
\* calculate_comprehensive_stats called on its own, on any synthesis record

\* A JSON value by what the function looks at: its Python type
\* ("list", "object", "string", "number", "null", or "absent" when the key
\* is not in the dictionary), its len() or its number (size), and for a
\* list its elements.
JsonValue(type, size) == [type |-> type, size |-> size, items |-> <<>>]

AbsentKey == JsonValue("absent", 0)

JsonNull == JsonValue("null", 0)

JsonList(items) == [type |-> "list", size |-> Len(items), items |-> items]

\* d.get(key, default) for the value v the dictionary d holds under key
get(v, default) == IF v.type = "absent" THEN default ELSE v

\* bool(v): None, 0 and the empty string, list and object are false
Truthy(v) == v.type \notin {"absent", "null"} /\ v.size > 0

\* len(v) is defined
HasLen(v) == v.type \in {"list", "object", "string"}

\* v.get is defined
HasGet(v) == v.type = "object"

\* the keys calculate_comprehensive_stats reads of an element of
\* procedures_analyses or maintenance_preventive
EntryKeys ==
    {"performance_analytique", "controles_qualite", "precautions_critiques",
     "duree_estimee", "materiels_specifiques"}

\* an element that is an object, with the values of its keys
Entry(fields) ==
    [type |-> "object", size |-> Cardinality({k \in EntryKeys : fields[k].type # "absent"}),
     items |-> <<>>, fields |-> fields]

\* an element that is a string (also: a character of a string, a key of an
\* object, which is what iterating over a string or an object gives)
StringEntry ==
    [type |-> "string", size |-> 1, items |-> <<>>,
     fields |-> [k \in EntryKeys |-> AbsentKey]]

\* what `for p in v` goes through
Elements(v) ==
    IF v.type = "list" THEN v.items ELSE [k \in 1..v.size |-> StringEntry]

\* sum(1 for p in v if p.get(key)): raises when v cannot be iterated or an
\* element has no .get
CountWith(v, key) ==
    IF ~HasLen(v) \/ \E k \in DOMAIN Elements(v) : ~HasGet(Elements(v)[k])
    THEN [raised |-> TRUE, n |-> 0]
    ELSE [raised |-> FALSE,
          n |-> Cardinality({k \in DOMAIN Elements(v) :
                                Truthy(Elements(v)[k].fields[key])})]

\* variant: the level of detail looks at the number of procedures only
niveau_detail_by_count(procedures, procedures_with_performance) ==
    IF procedures.size > 0 THEN "EXHAUSTIF" ELSE "BASIQUE"

\* "EXHAUSTIF" if len(procedures) > 0 and procedures_with_performance > 0
\* else "BASIQUE"
niveau_detail(procedures, procedures_with_performance) ==
    IF procedures.size > 0 /\ procedures_with_performance > 0
    THEN "EXHAUSTIF" ELSE "BASIQUE"

NoStats ==
    [procedures_consolidees |-> 0, procedures_avec_performance |-> 0,
     maintenances_consolidees |-> 0, procedures_brutes |-> 0,
     resume_executif_longueur |-> 0,
     niveau_detail |-> "none"]

\* sum(len(a.get("procedures", [])) for a in chunk_analyses)
RECURSIVE procedures_brutes(_)
procedures_brutes(chunk_analyses_) ==
    IF chunk_analyses_ = <<>> THEN 0
    ELSE Len(Head(chunk_analyses_).lists["procedures"].items)
         + procedures_brutes(Tail(chunk_analyses_))

\* outcome of calculate_comprehensive_stats for the synthesis record syn (a
\* function from its top-level keys to their values) of the records
\* chunk_analyses_: the statements in the order the function runs them
calculate_comprehensive_stats(chunk_analyses_, syn) ==
    LET procedures  == get(syn["procedures_analyses"], JsonList(<<>>))
        maintenance == get(syn["maintenance_preventive"], JsonList(<<>>))
        with_performance == CountWith(procedures, "performance_analytique")
        with_controls    == CountWith(procedures, "controles_qualite")
        with_precautions == CountWith(procedures, "precautions_critiques")
        with_timing      == CountWith(maintenance, "duree_estimee")
        with_materials   == CountWith(maintenance, "materiels_specifiques")
        info   == get(syn["informations_generales"], JsonValue("object", 0))
        resume == get(syn["resume_executif"], JsonValue("string", 0))
    IN  IF \/ with_performance.raised \/ with_controls.raised
           \/ with_precautions.raised
           \/ with_timing.raised \/ with_materials.raised
           \/ ~HasGet(info)
           \/ ~HasLen(resume)
        THEN [raised |-> TRUE, stats |-> NoStats]
        ELSE [raised |-> FALSE,
              stats |->
                [procedures_consolidees      |-> procedures.size,
                 procedures_avec_performance |-> with_performance.n,
                 maintenances_consolidees    |-> maintenance.size,
                 procedures_brutes           |-> procedures_brutes(chunk_analyses_),
                 resume_executif_longueur    |-> resume.size,
                 niveau_detail |-> niveau_detail(procedures, with_performance.n)]]

\* the keys of the synthesis record the function reads
StatsKeys ==
    {"procedures_analyses", "maintenance_preventive", "informations_generales",
     "resume_executif"}

\* elements of procedures_analyses: a procedure with performance data, with
\* an empty performance object, with none, and a string
ProcedureEntries ==
    { Entry([k \in EntryKeys |->
                IF k = "performance_analytique" THEN perf
                ELSE IF k = "precautions_critiques" THEN JsonList(<< StringEntry >>)
                ELSE AbsentKey])
        : perf \in { JsonValue("object", 3), JsonValue("object", 0), AbsentKey } }
    \cup { StringEntry }

MaintenanceEntry ==
    Entry([k \in EntryKeys |->
              IF k = "duree_estimee" THEN JsonValue("string", 10) ELSE AbsentKey])

\* the synthesis records handed to the function: the fields as the prompt
\* asks for them, as the fallback builds them, or of another JSON type
SynthesisRecords ==
    { [k \in StatsKeys |->
          CASE k = "procedures_analyses"    -> p
            [] k = "maintenance_preventive" -> m
            [] k = "informations_generales" -> g
            [] k = "resume_executif"        -> r]
        : p \in { AbsentKey, JsonNull, JsonValue("string", 8) }
                 \cup { JsonList(items) :
                          items \in UNION { [1..n -> ProcedureEntries]
                                             : n \in 0..MaxEntries } },
          m \in { AbsentKey, JsonNull, JsonList(<< MaintenanceEntry >>) },
          g \in { AbsentKey, JsonNull, JsonValue("object", 7),
                   JsonValue("list", 1) },
          r \in { AbsentKey, JsonNull, JsonValue("string", 300),
                   JsonValue("number", 42) } }

\* the records of the units the function is given with it
StatsAnalyses == << Record(1, 2, 0, 0, FALSE, Cobas, NoValue) >>

InitStats ==
    /\ DriverAtRest
    /\ f_in \in SynthesisRecords
    /\ f_out = [called |-> FALSE, raised |-> FALSE, stats |-> NoStats]

StatsCall ==
    /\ pc = "standalone"
    /\ ~f_out.called
    /\ f_out' = [called |-> TRUE,
                 raised |-> calculate_comprehensive_stats(StatsAnalyses, f_in).raised,
                 stats  |-> calculate_comprehensive_stats(StatsAnalyses, f_in).stats]
    /\ UNCHANGED << driverVars, f_in >>

NextStats == StatsCall

SpecStats == InitStats /\ [][NextStats]_vars

----------------------------------------------------------------------------
\* Properties of calculate_comprehensive_stats (specification SpecStats)

\* C22 (as claimed): calculate_comprehensive_stats returns its statistics
\* for every synthesis record, also one whose lists, list items or summary
\* are of another type than the schema asks for: it never raises.
C22_StatsNeverRaise ==
    f_out.called => ~f_out.raised

\* the procedures of the record as a list of objects: the number of them
\* and whether one has performance data that is not empty
ProcedureCount(syn) == get(syn["procedures_analyses"], JsonList(<<>>)).size

SomePerformance(syn) ==
    \E k \in DOMAIN Elements(get(syn["procedures_analyses"], JsonList(<<>>))) :
        LET perf == Elements(get(syn["procedures_analyses"], JsonList(<<>>)))[k]
                        .fields["performance_analytique"]
        IN  perf.type \notin {"absent", "null"} /\ perf.size # 0

\* C23: the level of detail the statistics give is "EXHAUSTIF" exactly when
\* the record has at least one procedure and at least one of its procedures
\* has performance data that is not empty; it is "BASIQUE" otherwise.
C23_ExhaustiveIffPerformance ==
    (f_out.called /\ ~f_out.raised) =>
        /\ f_out.stats.niveau_detail \in {"EXHAUSTIF", "BASIQUE"}
        /\ f_out.stats.niveau_detail = "EXHAUSTIF"
               <=> (ProcedureCount(f_in) > 0 /\ SomePerformance(f_in))

\* two procedures, the first with an empty performance object and the
\* second with performance data: the record is EXHAUSTIF
C23_Witness ==
    /\ f_out.called /\ ~f_out.raised
    /\ f_out.stats.procedures_consolidees = 2
    /\ f_out.stats.procedures_avec_performance = 1
    /\ f_in["procedures_analyses"].items[1].fields["performance_analytique"].size = 0
    /\ f_out.stats.niveau_detail = "EXHAUSTIF"

----------------------------------------------------------------------------
\* Properties of the text merge_texts_medical returns (specification
\* SpecMerge)

\* C24: the text merge_texts_medical returns is made, in the order of the
\* results, of one header and the text of each result; the i-th header
\* carries the index i and the length of the i-th text, and the text holds
\* as many headers as there are results.
C24_OneHeaderPerResult ==
    (m_out.called /\ ~m_out.raised) =>
        /\ Len(m_out.sections) = Len(m_in)
        /\ \A i \in 1..Len(m_in) :
               /\ m_out.sections[i].index = i
               /\ m_out.sections[i].char_count = m_in[i].text_len
               /\ TextOf(m_out.sections)[2 * i - 1].k = "H"
               /\ TextOf(m_out.sections)[2 * i] = Run("x", m_in[i].text_len)
        /\ Len(TextOf(m_out.sections)) = 2 * Len(m_in)
        /\ section_markers(TextOf(m_out.sections)) = Len(m_in)

\* three results merged, the second with a stored count that is not the
\* length of its text
C24_Witness ==
    /\ m_out.called /\ ~m_out.raised
    /\ Len(m_in) = 3
    /\ m_in[2].char_count # m_in[2].text_len
    /\ m_out.sections[2].char_count = 100

----------------------------------------------------------------------------
\* Properties of create_analysis_chunks on a merged text (specification
\* SpecChunk)

\* the text is one merge_texts_medical returns for two results or more: a
\* header and the text of the result, for each result
IsMergedText(t) ==
    /\ Len(t) >= 4
    /\ Len(t) % 2 = 0
    /\ \A i \in 1..Len(t) : t[i].k = (IF i % 2 = 1 THEN "H" ELSE "x")

\* C25 (as claimed): a merged text of two sections or more that exceeds
\* the budget is split at its headers: the units are runs of whole
\* consecutive sections in order, a unit of more than one section fits the
\* budget, and a unit ends only where the next section would not have fitted.
C25_SplitAtSectionHeaders ==
    (f_out.called /\ IsMergedText(f_in) /\ TextLen(f_in) > max_chars_per_chunk) =>
        /\ ~f_out.raised
        /\ JoinedText(f_out.chunks) = f_in
        /\ \A k \in 1..Len(f_out.chunks) :
               LET u == f_out.chunks[k]
               IN  /\ u.text # <<>>
                   /\ u.text[1].k = "H"
                   /\ section_markers(u.text) > 1 => u.char_count <= max_chars_per_chunk
                   /\ k < Len(f_out.chunks) =>
                          u.char_count + f_out.chunks[k + 1].text[1].n
                              + f_out.chunks[k + 1].text[2].n > max_chars_per_chunk

----------------------------------------------------------------------------
\* Order of the capability calls of a run (specification Spec)

\* pauses that have elapsed when all n items of a stage are done
PausesOf(n) == IF n > 0 THEN n - 1 ELSE 0

\* C26: the sub-documents are extracted one after the other in ordinal
\* order, a pause elapsing between two of them; every extraction is done
\* before the first analysis request; the units are analysed one after the
\* other in ordinal order with a pause between two of them; no pause
\* follows the last item of a stage.
C26_CallsSequentialWithDelays ==
    /\ \A k \in 1..Len(chunk_texts) :
           /\ k <= Len(pdf_chunks)
           /\ chunk_texts[k].pages = pdf_chunks[k].last - pdf_chunks[k].first + 1
           /\ chunk_texts[k].name_len = NameLen(pdf_chunks[k], prepared_pdf)
    /\ \A k \in 1..Len(chunk_analyses) :
           /\ k <= Len(analysis_chunks)
           /\ chunk_analyses[k].unit = k
    /\ pc = "extract" =>
           /\ Len(chunk_texts) = ext_i - 1
           /\ calls.delays = ext_i - 1
    /\ pc = "extract_delay" =>
           /\ Len(chunk_texts) = ext_i
           /\ ext_i < Len(pdf_chunks)
           /\ calls.delays = ext_i - 1
    /\ calls.ocr > 0 /\ failed_stage = "none" /\ pc # "interrupted" =>
           calls.ocr >= Len(chunk_texts)
    /\ calls.generate > 0 =>
           /\ Len(chunk_texts) = Len(pdf_chunks)
           /\ calls.delays >= PausesOf(Len(pdf_chunks))
    /\ pc \in {"merge", "chunk"} => calls.delays = PausesOf(Len(pdf_chunks))
    /\ pc = "analyze" =>
           /\ Len(chunk_analyses) = an_i - 1
           /\ calls.delays = PausesOf(Len(pdf_chunks)) + an_i - 1
    /\ pc = "analyze_delay" =>
           /\ Len(chunk_analyses) = an_i
           /\ an_i < Len(analysis_chunks)
           /\ calls.delays = PausesOf(Len(pdf_chunks)) + an_i - 1
    /\ pc \in {"synthesize", "render"} =>
           /\ Len(chunk_analyses) = Len(analysis_chunks)
           /\ calls.delays = PausesOf(Len(pdf_chunks)) + PausesOf(Len(analysis_chunks))
    /\ calls.delays <= PausesOf(Len(pdf_chunks)) + PausesOf(Len(analysis_chunks))

\* three sub-documents extracted with two pauses, no analysis request yet
C26_Witness ==
    /\ pc = "analyze"
    /\ Len(pdf_chunks) = 3
    /\ Len(chunk_texts) = 3
    /\ calls.delays = 2
    /\ calls.generate = 0

----------------------------------------------------------------------------
\* Consolidation in a run (specification Spec)

\* C27 (as claimed): once every unit gave a record that
\* validate_detailed_analysis_result accepted, synthesize_final_medical
\* returns a synthesis record, whatever fails in the reduction, in the
\* request or in the fallback: the run never aborts in the consolidation.
C27_ConsolidationNeverRaises ==
    calls.synthesis > 0 =>
        /\ chunk_analyses # <<>>
        /\ synthesis # NoSynthesis
        /\ failed_stage # "synthesize"

----------------------------------------------------------------------------
\* What the cleanup of a run removes (specification Spec)

\* C28: cleanup_temp_files and emergency_cleanup never delete the source
\* document (nor a file at the output path): whatever the locals of the run,
\* the paths they unlink are chunk files of the splitter, and only when
\* there is more than one sub-document, and the decrypted copy, which is
\* not the source document.
C28_CleanupKeepsSourceAndOutput ==
    /\ disk_original
    /\ \A f \in Unlinked(pdf_chunks, prepared_pdf) :
           /\ f.file \in {"chunk", "decrypted"}
           /\ f.file = "chunk" => Len(pdf_chunks) > 1
           /\ f.file = "decrypted" => prepared_pdf = "decrypted" /\ encrypted
    /\ ~cleanup_temp_files(pdf_chunks, prepared_pdf, disk_chunks,
                           disk_decrypted).original_unlinked

\* the run of an encrypted document of three sub-documents failed in the
\* analysis: its chunk files and decrypted copy are gone, the source is there
C28_Witness ==
    /\ pc = "done"
    /\ failed_stage = "analyze"
    /\ encrypted
    /\ Len(pdf_chunks) = 3
    /\ disk_chunks = {}
    /\ ~disk_decrypted
    /\ disk_original

----------------------------------------------------------------------------
\* stream_analysis_with_content (app.py): the generator behind one streamed
\* /analyze request, run to its end

\* the events the generator yields: a log line of a level, or a terminal
\* event {"type": "complete"} or {"type": "error"}
LogEvent(level) == [type |-> "log", level |-> level]

CompleteEvent == [type |-> "complete", level |-> "none"]

ErrorEvent == [type |-> "error", level |-> "none"]

\* n log lines of one level
Logs(level, n) == [k \in 1..n |-> LogEvent(level)]

\* variant: the outer except clause writes its log line and no terminal
\* event
critical_error_logged_only == << LogEvent("error") >>

\* what the outer `except Exception` clause yields
critical_error == << LogEvent("error"), ErrorEvent >>

\* What one request meets:
\*   initialized  manualminer.initialized when the request starts
\*   analyzer     manualminer.analyzer is set after the initialisation
\*   save         writing the upload to temp_pdf_path: "ok", "empty" (the
\*                file is missing or has size 0), or open / write raised
\*                before or after the file was created
\*   analysis     analyze_manual_organized raised, or the success flag of
\*                the dictionary it returned
\*   pdf_exists   Path(result["pdf_medical"]).exists()
\*   bucket       manualminer.storage_bucket is set
\*   upload       blob.upload_from_filename returned
StreamInputs ==
    { r \in [initialized : BOOLEAN, analyzer : BOOLEAN,
              save : {"ok", "empty", "raised_before_create", "raised_after_create"},
              analysis : {"raised", "failure", "success"},
              pdf_exists : BOOLEAN, bucket : BOOLEAN, upload : BOOLEAN] :
        r.initialized => r.analyzer }

\* the generator has not been started: its position, the events it has
\* yielded, temp_pdf_path being on disk, the PDF being in the bucket
NoStream ==
    [pos |-> "start", events |-> <<>>, temp |-> FALSE, uploaded |-> FALSE]

InitStream ==
    /\ DriverAtRest
    /\ f_in \in StreamInputs
    /\ f_out = NoStream

\* from the start of the try block to "Taille: ... bytes"
StreamCheck ==
    /\ pc = "standalone"
    /\ f_out.pos = "start"
    /\ LET first == IF ~f_in.initialized THEN Logs("info", 1) ELSE <<>>
       IN  f_out' =
             IF ~f_in.analyzer
             THEN [f_out EXCEPT
                     !.events = @ \o first \o Logs("error", 3) \o << ErrorEvent >>,
                     !.pos = "finally"]
             ELSE [f_out EXCEPT
                     !.events = @ \o first \o Logs("info", 7),
                     !.pos = "save"]
    /\ UNCHANGED << driverVars, f_in >>

\* writing the upload to temp_pdf_path and checking it
StreamSave ==
    /\ pc = "standalone"
    /\ f_out.pos = "save"
    /\ f_out' =
         IF f_in.save = "ok"
         THEN [f_out EXCEPT !.temp = TRUE,
                            !.events = @ \o Logs("success", 1) \o Logs("info", 1),
                            !.pos = "analyze"]
         ELSE [f_out EXCEPT !.temp = (f_in.save # "raised_before_create"),
                            !.events = @ \o Logs("error", 1) \o << ErrorEvent >>,
                            !.pos = "finally"]
    /\ UNCHANGED << driverVars, f_in >>

\* the call of analyze_manual_organized and the branches on its result up
\* to "Upload vers Cloud Storage..."
StreamAnalyze ==
    /\ pc = "standalone"
    /\ f_out.pos = "analyze"
    /\ f_out' =
         IF f_in.analysis = "success" /\ f_in.pdf_exists
         THEN [f_out EXCEPT !.events = @ \o Logs("success", 1) \o Logs("info", 1),
                            !.pos = "upload"]
         ELSE IF f_in.analysis = "success"
         THEN [f_out EXCEPT !.events = @ \o Logs("success", 1) \o Logs("error", 1)
                                         \o << ErrorEvent >>,
                            !.pos = "finally"]
         ELSE [f_out EXCEPT !.events = @ \o Logs("error", 1) \o << ErrorEvent >>,
                            !.pos = "finally"]
    /\ UNCHANGED << driverVars, f_in >>

\* the upload to the bucket and the completion event; storage_bucket being
\* None or the upload raising leads to the outer except clause
StreamUpload ==
    /\ pc = "standalone"
    /\ f_out.pos = "upload"
    /\ f_out' =
         IF ~f_in.bucket \/ ~f_in.upload
         THEN [f_out EXCEPT !.events = @ \o critical_error,
                            !.pos = "finally"]
         ELSE [f_out EXCEPT !.uploaded = TRUE,
                            !.events = @ \o Logs("success", 4) \o << CompleteEvent >>,
                            !.pos = "finally"]
    /\ UNCHANGED << driverVars, f_in >>

\* the finally clause: temp_pdf_path is unlinked if it is set and exists
StreamFinally ==
    /\ pc = "standalone"
    /\ f_out.pos = "finally"
    /\ f_out' = [f_out EXCEPT !.temp = FALSE, !.pos = "closed"]
    /\ UNCHANGED << driverVars, f_in >>

NextStream ==
    \/ StreamCheck
    \/ StreamSave
    \/ StreamAnalyze
    \/ StreamUpload
    \/ StreamFinally

SpecStream == InitStream /\ [][NextStream]_vars

----------------------------------------------------------------------------
\* Properties of a streamed analysis (specification SpecStream)

\* positions of the terminal events in a sequence of events
Terminals(events) ==
    {k \in DOMAIN events : events[k] \in {CompleteEvent, ErrorEvent}}

----------------------------------------------------------------------------
\* ManualMinerAPI.initialize (app.py) called by concurrent requests: the
\* handlers of /health and /analyze run on the server's request threads and
\* share the global manualminer, which holds no lock

RequestThreads == 1..MaxRequests

\* manualminer after ManualMinerAPI(): analyzer 0 is None, analyzer n is the
\* n-th LabManualAnalyzerStrict constructed; instances counts the
\* constructor calls; each request is at a position of its handler and
\* holds the instance it constructed
NoInitialization ==
    [initialized |-> FALSE, analyzer |-> 0, instances |-> 0,
     at |-> [r \in RequestThreads |-> "request"],
     made |-> [r \in RequestThreads |-> 0]]

InitInit ==
    /\ DriverAtRest
    /\ f_in \in [RequestThreads -> {"health", "analyze"}]
    /\ f_out = NoInitialization

\* the handler's test `if not manualminer.initialized`
RequestCheck(r) ==
    /\ pc = "standalone"
    /\ f_out.at[r] = "request"
    /\ f_out' = [f_out EXCEPT
                   !.at[r] = IF f_out.initialized THEN "done" ELSE "initialize"]
    /\ UNCHANGED << driverVars, f_in >>

\* initialize: `if self.initialized: return True`, then the checks of
\* config.json, which return False when one fails
InitializeEnter(r) ==
    /\ pc = "standalone"
    /\ f_out.at[r] = "initialize"
    /\ \E config_ok \in BOOLEAN :
         f_out' = [f_out EXCEPT
                     !.at[r] = IF f_out.initialized \/ ~config_ok
                               THEN "done" ELSE "construct"]
    /\ UNCHANGED << driverVars, f_in >>

\* the call LabManualAnalyzerStrict("config.json"): one more instance; when
\* the constructor raises, initialize returns False
InitializeConstruct(r) ==
    /\ pc = "standalone"
    /\ f_out.at[r] = "construct"
    /\ \E raised \in BOOLEAN :
         f_out' = [f_out EXCEPT
                     !.instances = @ + 1,
                     !.made[r] = IF raised THEN 0 ELSE f_out.instances + 1,
                     !.at[r] = IF raised THEN "done" ELSE "assign"]
    /\ UNCHANGED << driverVars, f_in >>

\* the assignment self.analyzer = <the new instance>
InitializeAssign(r) ==
    /\ pc = "standalone"
    /\ f_out.at[r] = "assign"
    /\ f_out' = [f_out EXCEPT !.analyzer = f_out.made[r], !.at[r] = "flag"]
    /\ UNCHANGED << driverVars, f_in >>

\* self.initialized = True; return True
InitializeFlag(r) ==
    /\ pc = "standalone"
    /\ f_out.at[r] = "flag"
    /\ f_out' = [f_out EXCEPT !.initialized = TRUE, !.at[r] = "done"]
    /\ UNCHANGED << driverVars, f_in >>

NextInit ==
    \E r \in RequestThreads :
        \/ RequestCheck(r)
        \/ InitializeEnter(r)
        \/ InitializeConstruct(r)
        \/ InitializeAssign(r)
        \/ InitializeFlag(r)

SpecInit == InitInit /\ [][NextInit]_vars

----------------------------------------------------------------------------
\* Properties of the shared initialisation (specification SpecInit)

\* C30: under any interleaving of requests that call initialize,
\* LabManualAnalyzerStrict is constructed at most once, and once initialized
\* is true the analyzer reference never changes.
C30_AnalyzerConstructedOnce ==
    [][ /\ f_out'.instances <= 1
        /\ f_out.initialized => f_out'.analyzer = f_out.analyzer ]_vars

============================================================================
